---------------------------- MODULE Spec2Model ----------------------------
(***************************************************************************)
(* A model of the haadi analyzer (src/src/lib.rs and its modules): the      *)
(* scan of a project tree, the resolver, entry discovery, the reachability  *)
(* traversal, the unresolved-import arbiter, dependency attribution, asset  *)
(* usage, export usage and the report.                                      *)
(*                                                                          *)
(* Strings are TLA+ strings; TLC evaluates Len, \o, SubSeq, Head and Tail   *)
(* on them, so the code's string and path functions are modelled character  *)
(* by character.  Paths are absolute Unix path strings.                     *)
(***************************************************************************)
EXTENDS Integers, Sequences, FiniteSets, TLC

(***************************************************************************)
(* Generic helpers (Rust std string, slice and set operations).             *)
(***************************************************************************)
SetMin(S) == CHOOSE x \in S : \A y \in S : x <= y

SetMax(S) == CHOOSE x \in S : \A y \in S : x >= y

Range(f) == {f[i] : i \in DOMAIN f}

RECURSIVE SeqOfSet(_)
SeqOfSet(S) == IF S = {} THEN <<>>
               ELSE LET x == CHOOSE y \in S : TRUE IN <<x>> \o SeqOfSet(S \ {x})

RECURSIVE Flatten(_)
Flatten(ss) == IF ss = <<>> THEN <<>> ELSE Head(ss) \o Flatten(Tail(ss))

Char(s, i) == SubSeq(s, i, i)

\* the characters of a string
CharsOf(s) == {Char(s, i) : i \in 1..Len(s)}

\* The first index from i on at which s has one of the characters, the index
\* after the end of s when it has none of them there.
FirstOf(s, i, chars) ==
    CHOOSE j \in i..(Len(s) + 1) :
        /\ j > Len(s) \/ Char(s, j) \in chars
        /\ \A k \in i..(j - 1) : Char(s, k) \notin chars

\* str::starts_with
StartsWith(s, p) == Len(p) <= Len(s) /\ SubSeq(s, 1, Len(p)) = p

\* str::ends_with
EndsWith(s, p) == Len(p) <= Len(s) /\ SubSeq(s, Len(s) - Len(p) + 1, Len(s)) = p

\* str::find: the 1-based index of the first occurrence of sub, 0 for None
Find(s, sub) ==
    LET idx == {i \in 1..(Len(s) - Len(sub) + 1) : SubSeq(s, i, i + Len(sub) - 1) = sub}
    IN IF idx = {} THEN 0 ELSE SetMin(idx)

\* str::rfind
RFind(s, sub) ==
    LET idx == {i \in 1..(Len(s) - Len(sub) + 1) : SubSeq(s, i, i + Len(sub) - 1) = sub}
    IN IF idx = {} THEN 0 ELSE SetMax(idx)

\* str::contains
Contains(s, sub) == Find(s, sub) # 0

\* the part of s from index i to the end
From(s, i) == SubSeq(s, i, Len(s))

\* str::split_once: <<left, right>>, or <<>> for None
SplitOnce(s, sub) ==
    LET i == Find(s, sub)
    IN IF i = 0 THEN <<>> ELSE <<SubSeq(s, 1, i - 1), From(s, i + Len(sub))>>

\* str::split(ch): "a//b" gives <<"a", "", "b">> and "" gives <<"">>
RECURSIVE Split(_, _)
Split(s, sep) ==
    LET i == Find(s, sep)
    IN IF i = 0 THEN <<s>>
       ELSE <<SubSeq(s, 1, i - 1)>> \o Split(From(s, i + Len(sep)), sep)

\* The characters with the Unicode property White_Space that a string of the
\* model can hold: U+0009 to U+000D, the space, U+0085, U+00A0 and U+1680.
WhiteSpace == "\t\n\f\r   "

WhiteSpaceChars == CharsOf(WhiteSpace)

\* char::is_whitespace
IsWs(c) == c \in WhiteSpaceChars

RECURSIVE TrimStart(_)
TrimStart(s) == IF Len(s) > 0 /\ IsWs(Char(s, 1)) THEN TrimStart(Tail(s)) ELSE s

RECURSIVE TrimEnd(_)
TrimEnd(s) == IF Len(s) > 0 /\ IsWs(Char(s, Len(s)))
              THEN TrimEnd(SubSeq(s, 1, Len(s) - 1)) ELSE s

\* str::trim
Trim(s) == TrimEnd(TrimStart(s))

\* str::strip_prefix: <<rest>>, or <<>> for None
StripPrefix(s, p) == IF StartsWith(s, p) THEN <<From(s, Len(p) + 1)>> ELSE <<>>

\* str::trim_start_matches(p), p not empty
RECURSIVE TrimStartMatches(_, _)
TrimStartMatches(s, p) ==
    IF StartsWith(s, p) THEN TrimStartMatches(From(s, Len(p) + 1), p) ELSE s

\* str::trim_end_matches(p), p not empty
RECURSIVE TrimEndMatches(_, _)
TrimEndMatches(s, p) ==
    IF EndsWith(s, p) THEN TrimEndMatches(SubSeq(s, 1, Len(s) - Len(p)), p) ELSE s

\* str::trim_matches(c)
TrimMatches(s, c) == TrimEndMatches(TrimStartMatches(s, c), c)

\* str::replace
RECURSIVE Replace(_, _, _)
Replace(s, from, to) ==
    LET i == Find(s, from)
    IN IF i = 0 THEN s
       ELSE SubSeq(s, 1, i - 1) \o to \o Replace(From(s, i + Len(from)), from, to)

\* the strings of a sequence joined with sep
RECURSIVE JoinStr(_, _)
JoinStr(ss, sep) ==
    IF ss = <<>> THEN ""
    ELSE IF Len(ss) = 1 THEN ss[1]
    ELSE ss[1] \o sep \o JoinStr(Tail(ss), sep)

\* A TLA+ string cannot hold the backquote, U+0060.  The modifier letter
\* "ˋ" is written in its place: wherever the model compares, orders or
\* classifies characters, this one character is the backquote, with the code
\* 96.
Backquote == "ˋ"

\* The alphabet of the model, in code order, in runs of consecutive codes:
\* U+0009 to U+000D, the space to "~", U+0085, U+00A0 to U+00FF, U+1680.
\* The texts, names and paths of the model hold these characters only, and a
\* character outside of them has no code here.
CodeRuns ==
    <<<<9, "\t\n\f\r">>,
      <<32, " !\"#$%&'()*+,-./0123456789:;<=>?@ABCDEFGHIJKLMNOPQRSTUVWXYZ[\\]^_">>,
      <<96, Backquote>>,
      <<97, "abcdefghijklmnopqrstuvwxyz{|}~">>,
      <<133, "">>,
      <<160, " ¡¢£¤¥¦§¨©ª«¬­®¯°±²³´µ¶·¸¹º»¼½¾¿ÀÁÂÃÄÅÆÇÈÉÊËÌÍÎÏÐÑÒÓÔÕÖ×ØÙÚÛÜÝÞßàáâãäåæçèéêëìíîïðñòóôõö÷øùúûüýþÿ">>,
      <<5760, " ">>>>

\* The code point of a character.  UTF-8 keeps the order of the code points,
\* so this is the order of str::cmp as well.
CodePoints ==
    [c \in UNION {CharsOf(CodeRuns[n][2]) : n \in DOMAIN CodeRuns} |->
        (CHOOSE run \in Range(CodeRuns) : c \in CharsOf(run[2]))[1]
        + FirstOf((CHOOSE run \in Range(CodeRuns) : c \in CharsOf(run[2]))[2], 1, {c}) - 1]

CharCode(c) == CodePoints[c]

\* a < b in the byte order of str::cmp
RECURSIVE StrLess(_, _)
StrLess(a, b) ==
    IF Len(b) = 0 THEN FALSE
    ELSE IF Len(a) = 0 THEN TRUE
    ELSE IF Char(a, 1) = Char(b, 1) THEN StrLess(Tail(a), Tail(b))
    ELSE CharCode(Char(a, 1)) < CharCode(Char(b, 1))

\* Vec<String>::sort of the elements of a set
RECURSIVE SortStrings(_)
SortStrings(S) ==
    IF S = {} THEN <<>>
    ELSE LET m == CHOOSE x \in S : \A y \in S \ {x} : StrLess(x, y)
         IN <<m>> \o SortStrings(S \ {m})


\* Option values are sequences: <<>> is None and <<v>> is Some(v).
None == <<>>

Some(v) == <<v>>

\* Option::or: the first outcome unless it is None.
OrElse(first, second) == IF first # None THEN first ELSE second

\* Option::unwrap_or
UnwrapOr(opt, default) == IF opt # None THEN opt[1] ELSE default

\* Option::filter(|v| S.contains(v))
MemberOnly(opt, S) == IF opt # None /\ opt[1] \in S THEN opt ELSE None

(***************************************************************************)
(* The analyzed project: the files on disk, the package manifest, the       *)
(* path-mapping configuration files and the command line.  They are chosen  *)
(* in the initial state, and the analyzer only reads them.                  *)
(***************************************************************************)
VARIABLES
    disk,       \* path of a regular file |-> its text, a sequence of statements
    folders,    \* directory |-> whether entries can be made and removed in it
    manifest,   \* None, or Some(the text of the package.json at the root)
    configs,    \* path of a JSON file |-> its text
    cli         \* the command line: entries, flags and asset roots

\* The canonical project root (fs::canonicalize(&cli.root)).
Root == "/r"

ManifestPath == Root \o "/package.json"

\* Every regular file on disk.
DiskFiles ==
    DOMAIN disk \cup DOMAIN configs \cup (IF manifest = None THEN {} ELSE {ManifestPath})

\* The proper prefixes of a path that end before a separator: its ancestor directories.
AncestorDirs(p) ==
    {SubSeq(p, 1, i - 1) : i \in {j \in 2..Len(p) : Char(p, j) = "/"}}

\* Every directory on disk: "/", the root, the ancestors of the files and the
\* directories of the terminal interface, which can be empty.
DiskDirs == {"/", Root} \cup UNION {AncestorDirs(f) : f \in DiskFiles} \cup DOMAIN folders

(***************************************************************************)
(* std::path on Unix.                                                       *)
(***************************************************************************)
\* Path::components without the root: the Normal and ".." components.
PathComponents(p) == SelectSeq(Split(p, "/"), LAMBDA c : c # "" /\ c # ".")

\* Path::file_name
FileName(p) ==
    LET cs == PathComponents(p)
    IN IF cs = <<>> \/ cs[Len(cs)] = ".." THEN None ELSE Some(cs[Len(cs)])

\* Path::extension of a file name (rsplit_file_at_dot)
ExtensionOfName(name) ==
    LET i == RFind(name, ".")
    IN IF name = ".." \/ i = 0 \/ i = 1 THEN None ELSE Some(From(name, i + 1))

\* Path::file_stem of a file name
StemOfName(name) ==
    LET i == RFind(name, ".")
    IN IF name = ".." \/ i = 0 \/ i = 1 THEN name ELSE SubSeq(name, 1, i - 1)

\* Path::extension
Extension(p) == IF FileName(p) = None THEN None ELSE ExtensionOfName(FileName(p)[1])

\* Path::file_stem
FileStem(p) == IF FileName(p) = None THEN None ELSE Some(StemOfName(FileName(p)[1]))

\* The path without the separators and "." components that follow its file name.
RECURSIVE StripTrailing(_)
StripTrailing(p) ==
    IF Len(p) > 1 /\ EndsWith(p, "/") THEN StripTrailing(SubSeq(p, 1, Len(p) - 1))
    ELSE IF Len(p) > 2 /\ EndsWith(p, "/.") THEN StripTrailing(SubSeq(p, 1, Len(p) - 2))
    ELSE p

\* Path::with_extension: the buffer is cut right after the file stem and
\* "." and the extension are appended; a path without file name is unchanged.
WithExtension(p, ext) ==
    IF FileName(p) = None THEN p
    ELSE LET q == StripTrailing(p)
             name == FileName(p)[1]
             cut == SubSeq(q, 1, Len(q) - Len(name) + Len(StemOfName(name)))
         IN IF ext = "" THEN cut ELSE cut \o "." \o ext

\* Path::join: an absolute argument replaces the base.
Join(base, rel) ==
    IF StartsWith(rel, "/") THEN rel
    ELSE IF base = "" THEN rel
    ELSE IF EndsWith(base, "/") THEN base \o rel
    ELSE base \o "/" \o rel

\* The absolute path of a sequence of components.
AbsPath(cs) == "/" \o JoinStr(cs, "/")

\* Path::parent of an absolute path: None for the root.
Parent(p) ==
    LET cs == PathComponents(p)
    IN IF cs = <<>> THEN None ELSE Some(AbsPath(SubSeq(cs, 1, Len(cs) - 1)))

\* The operating system's resolution of the raw components of an absolute
\* path (no symbolic links): cur is the directory reached so far.  "" and "."
\* stay, ".." goes up, a name must exist, and only a directory can be
\* followed by more components.
RECURSIVE WalkPath(_, _)
WalkPath(cur, comps) ==
    IF comps = <<>> THEN Some(AbsPath(cur))
    ELSE LET c == Head(comps)
             nxt == AbsPath(Append(cur, c))
         IN IF c = "" \/ c = "." THEN WalkPath(cur, Tail(comps))
            ELSE IF c = ".."
            THEN WalkPath(IF cur = <<>> THEN cur ELSE SubSeq(cur, 1, Len(cur) - 1),
                          Tail(comps))
            ELSE IF nxt \in DiskDirs THEN WalkPath(Append(cur, c), Tail(comps))
            ELSE IF nxt \in DiskFiles /\ Tail(comps) = <<>> THEN Some(nxt)
            ELSE None

\* fs::canonicalize of an absolute path: None when the path does not exist.
Canonicalize(p) == WalkPath(<<>>, Tail(Split(p, "/")))

\* Path::exists
Exists(p) == Canonicalize(p) # None

\* Path::is_dir
IsDir(p) == MemberOnly(Canonicalize(p), DiskDirs) # None

\* Path::is_file
IsFile(p) == MemberOnly(Canonicalize(p), DiskFiles) # None

\* a < b in the order of Vec<String>
RECURSIVE SeqLess(_, _)
SeqLess(a, b) ==
    IF b = <<>> THEN FALSE
    ELSE IF a = <<>> THEN TRUE
    ELSE IF Head(a) = Head(b) THEN SeqLess(Tail(a), Tail(b))
    ELSE StrLess(Head(a), Head(b))

\* PathBuf's Ord: the components compared in order.
PathLess(a, b) == SeqLess(PathComponents(a), PathComponents(b))

\* The iteration order of a BTreeSet<PathBuf>.
RECURSIVE SortPaths(_)
SortPaths(S) ==
    IF S = {} THEN <<>>
    ELSE LET m == CHOOSE x \in S : \A y \in S \ {x} : PathLess(x, y)
         IN <<m>> \o SortPaths(S \ {m})

\* output::relative_display: the path below the root, or the path itself.
relative_display(root, path) ==
    IF path = root THEN ""
    ELSE IF StartsWith(path, root \o "/") THEN From(path, Len(root) + 2)
    ELSE path


(***************************************************************************)
(* lib.rs: constants and path predicates.                                   *)
(***************************************************************************)
JS_TS_EXTENSIONS == <<"js", "jsx", "ts", "tsx", "mjs", "cjs">>

ASSET_EXTENSIONS ==
    <<"png", "jpg", "jpeg", "gif", "webp", "avif", "svg", "ico", "bmp", "tiff", "mp4",
      "webm", "mp3", "wav", "ogg", "woff", "woff2", "ttf", "otf", "eot", "pdf", "txt",
      "css", "scss", "sass", "less">>

LOCAL_EXISTING_EXTENSIONS ==
    <<"js", "jsx", "ts", "tsx", "mjs", "cjs", "json", "css", "scss", "sass", "less",
      "png", "jpg", "jpeg", "gif", "webp", "avif", "svg", "ico", "bmp", "tiff", "mp4",
      "webm", "mp3", "wav", "ogg", "woff", "woff2", "ttf", "otf", "eot", "pdf", "txt">>

NEXT_APP_ROUTE_FILES ==
    {"page", "layout", "route", "loading", "error", "not-found", "template", "default",
     "head"}

is_declaration_file(path) ==
    FileName(path) # None /\ EndsWith(FileName(path)[1], ".d.ts")

has_source_extension(path) ==
    /\ ~is_declaration_file(path)
    /\ Extension(path) # None
    /\ Extension(path)[1] \in Range(JS_TS_EXTENSIONS)

has_asset_extension(path) ==
    Extension(path) # None /\ Extension(path)[1] \in Range(ASSET_EXTENSIONS)

is_public_asset(path) == "public" \in Range(PathComponents(path))

is_test_like_file(path) ==
    LET file_name == IF FileName(path) = None THEN "" ELSE FileName(path)[1]
    IN \/ Contains(file_name, ".test.")
       \/ Contains(file_name, ".spec.")
       \/ Contains(path, "/__tests__/")
       \/ Contains(path, "\\__tests__\\")

UpperCase == "ABCDEFGHIJKLMNOPQRSTUVWXYZ"

LowerCase == "abcdefghijklmnopqrstuvwxyz"

\* str::to_ascii_lowercase
RECURSIVE to_ascii_lowercase(_)
to_ascii_lowercase(s) ==
    IF s = "" THEN ""
    ELSE LET i == Find(UpperCase, Char(s, 1))
         IN (IF i = 0 THEN Char(s, 1) ELSE Char(LowerCase, i))
            \o to_ascii_lowercase(Tail(s))

KnownConfigFiles ==
    {"eslint.config.js", "eslint.config.cjs", "eslint.config.mjs", "eslint.config.ts",
     "eslint.config.mts", "eslint.config.cts", "vite.config.js", "vite.config.cjs",
     "vite.config.mjs", "vite.config.ts", "vite.config.mts", "vite.config.cts",
     "vitest.config.js", "vitest.config.cjs", "vitest.config.mjs", "vitest.config.ts",
     "vitest.config.mts", "vitest.config.cts", "jest.config.js", "jest.config.cjs",
     "jest.config.mjs", "jest.config.ts", "jest.config.mts", "jest.config.cts",
     "webpack.config.js", "webpack.config.cjs", "webpack.config.mjs",
     "webpack.config.ts", "rollup.config.js", "rollup.config.cjs", "rollup.config.mjs",
     "rollup.config.ts", "postcss.config.js", "postcss.config.cjs",
     "tailwind.config.js", "tailwind.config.cjs", "tailwind.config.ts",
     "babel.config.js", "babel.config.cjs", "commitlint.config.js",
     "commitlint.config.cjs", "lint-staged.config.js", "lint-staged.config.cjs"}

\* is_common_config_file with the fault of knowing the listed names only.
is_listed_config_file(path) ==
    FileName(path) # None /\ FileName(path)[1] \in KnownConfigFiles

is_common_config_file(path) ==
    LET file_name == IF FileName(path) = None THEN "" ELSE FileName(path)[1]
        config_exts == {".js", ".cjs", ".mjs", ".ts", ".cts", ".mts", ".json"}
    IN \/ Contains(to_ascii_lowercase(file_name), "config")
       \/ StartsWith(file_name, ".eslintrc")
       \/ StartsWith(file_name, ".prettierrc")
       \/ StartsWith(file_name, ".stylelintrc")
       \/ StartsWith(file_name, ".babelrc")
       \/ (Contains(file_name, ".config.") /\ \E ext \in config_exts : EndsWith(file_name, ext))
       \/ file_name \in KnownConfigFiles

IgnoredDirs ==
    {"node_modules", ".git", ".haadi_trash", "dist", "build", "coverage", "target",
     ".next", "out"}

is_ignored_dir(path) == FileName(path) # None /\ FileName(path)[1] \in IgnoredDirs

(***************************************************************************)
(* lib.rs: specifiers.                                                      *)
(***************************************************************************)
normalize_specifier(specifier) ==
    LET out0 == Trim(specifier)
        out1 == IF SplitOnce(out0, "?") # <<>> THEN SplitOnce(out0, "?")[1] ELSE out0
        out2 == IF SplitOnce(out1, "#") # <<>> THEN SplitOnce(out1, "#")[1] ELSE out1
    IN IF out0 = "" THEN out0 ELSE Trim(out2)

is_relative_specifier(specifier) ==
    StartsWith(specifier, "./") \/ StartsWith(specifier, "../")

looks_like_package_specifier(specifier) ==
    /\ ~(is_relative_specifier(specifier) \/ StartsWith(specifier, "/"))
    /\ ~StartsWith(specifier, "#")
    /\ ~Contains(specifier, ".")

\* package_name with the fault of cutting a scoped name at its scope.
first_segment_name(specifier) == Split(specifier, "/")[1]

package_name(specifier) ==
    LET parts == Split(specifier, "/")
        first == parts[1]
    IN IF StartsWith(first, "@")
       THEN first \o "/" \o (IF Len(parts) >= 2 THEN parts[2] ELSE "")
       ELSE first

\* The outcome of a slice whose start lies after its end: the thread panics.
Panic == <<"panic", "slice index starts after its end">>

\* str::split_once('*') of the key; the capture specifier[mid_start..mid_end]
\* (0-based, end exclusive) panics when mid_start > mid_end.
match_alias(alias_key, specifier) ==
    LET parts == SplitOnce(alias_key, "*")
    IN IF parts # <<>>
       THEN LET prefix == parts[1]
                suffix == parts[2]
                mid_start == Len(prefix)
                mid_end == IF Len(specifier) >= Len(suffix)
                           THEN Len(specifier) - Len(suffix) ELSE 0
            IN IF ~StartsWith(specifier, prefix) \/ ~EndsWith(specifier, suffix)
               THEN None
               ELSE IF mid_start > mid_end THEN Panic
               ELSE Some(SubSeq(specifier, mid_start + 1, mid_end))
       ELSE IF alias_key = specifier THEN Some("") ELSE None

\* apply_alias_target with the fault of leaving the wildcard in the target.
alias_target_unsubstituted(target, wildcard) == target

apply_alias_target(target, wildcard) ==
    IF Contains(target, "*") THEN Replace(target, "*", wildcard) ELSE target

\* The candidates of candidate expansion, in the order they are tried.
ExpansionCandidates(raw_candidate, exts) ==
    IF Extension(raw_candidate) # None THEN <<raw_candidate>>
    ELSE <<raw_candidate>>
         \o [i \in 1..Len(exts) |-> WithExtension(raw_candidate, exts[i])]
         \o [i \in 1..Len(exts) |-> Join(raw_candidate, "index." \o exts[i])]

\* The first of the outcomes that is not None, None when there is none: the
\* loop over the candidates returns at the first one that answers.
FirstSome(outcomes) ==
    IF \A i \in DOMAIN outcomes : outcomes[i] = None THEN None
    ELSE outcomes[CHOOSE i \in DOMAIN outcomes :
                      /\ outcomes[i] # None
                      /\ \A j \in 1..(i - 1) : outcomes[j] = None]

\* FirstMember with the fault of returning the first candidate that exists,
\* known source file or not.
first_existing(candidates, files) ==
    FirstSome([i \in DOMAIN candidates |-> Canonicalize(candidates[i])])

\* The first candidate that exists and canonicalizes to a member of files.
FirstMember(candidates, files) ==
    FirstSome([i \in DOMAIN candidates |->
                   MemberOnly(Canonicalize(candidates[i]), files)])

resolve_candidate_path(raw_candidate, files) ==
    FirstMember(ExpansionCandidates(raw_candidate, JS_TS_EXTENSIONS), files)

\* The outcome of fs::canonicalize on a path that passed exists() and
\* vanished before the call: the `?` returns the io::Error.
IoError == <<"error", "No such file or directory (os error 2)">>

\* resolve_candidate_path when the paths of `vanished' pass the existence
\* check and vanish before they are canonicalized.
FirstMemberVanishing(candidates, files, vanished) ==
    FirstSome([i \in DOMAIN candidates |->
                   IF ~Exists(candidates[i]) THEN None
                   ELSE IF candidates[i] \in vanished THEN IoError
                   ELSE MemberOnly(Canonicalize(candidates[i]), files)])

resolve_candidate_path_vanishing(raw_candidate, files, vanished) ==
    FirstMemberVanishing(ExpansionCandidates(raw_candidate, JS_TS_EXTENSIONS), files,
                         vanished)

local_target_exists(raw_candidate) ==
    \E path \in Range(ExpansionCandidates(raw_candidate, LOCAL_EXISTING_EXTENSIONS)) :
        Exists(path)

(***************************************************************************)
(* lib.rs: the Resolver, a record [files, root, base_dirs, alias_rules];    *)
(* an alias rule is a record [key, target, base_dir].                       *)
(***************************************************************************)
\* The loop over the alias rules of resolve_specifier: the first rule that
\* matches and whose target resolves decides; a rule that matches without
\* resolving is passed over.
alias_rule_outcome(rule, star, files) ==
    IF star = Panic THEN Panic
    ELSE IF star = None THEN None
    ELSE resolve_candidate_path(
             Join(rule.base_dir, apply_alias_target(rule.target, star[1])), files)

\* resolve_through_aliases with the fault of letting the first rule whose key
\* matches decide, whether its target resolves or not.
RECURSIVE first_matching_alias_decides(_, _, _)
first_matching_alias_decides(rules, normalized, files) ==
    IF rules = <<>> THEN None
    ELSE IF match_alias(Head(rules).key, normalized) = None
    THEN first_matching_alias_decides(Tail(rules), normalized, files)
    ELSE alias_rule_outcome(Head(rules), match_alias(Head(rules).key, normalized), files)

RECURSIVE resolve_through_aliases(_, _, _)
resolve_through_aliases(rules, normalized, files) ==
    IF rules = <<>> THEN None
    ELSE OrElse(alias_rule_outcome(Head(rules), match_alias(Head(rules).key, normalized),
                                   files),
                resolve_through_aliases(Tail(rules), normalized, files))

\* The loop over the base directories of resolve_specifier.
RECURSIVE resolve_through_base_dirs(_, _, _)
resolve_through_base_dirs(base_dirs, normalized, files) ==
    IF base_dirs = <<>> THEN None
    ELSE OrElse(resolve_candidate_path(Join(Head(base_dirs), normalized), files),
                resolve_through_base_dirs(Tail(base_dirs), normalized, files))

\* The relative branch of resolve_specifier: below the importing file's
\* directory, if it has one.
resolve_below(parent, normalized, files) ==
    IF parent = None THEN None
    ELSE resolve_candidate_path(Join(parent[1], normalized), files)

\* Resolver::resolve_specifier from the normalized specifier on: None,
\* Some(file) or Panic.
resolve_normalized(r, from_file, normalized) ==
    IF normalized = "" THEN None
    ELSE IF is_relative_specifier(normalized)
    THEN resolve_below(Parent(from_file), normalized, r.files)
    ELSE IF StartsWith(normalized, "/")
    THEN resolve_candidate_path(Join(r.root, From(normalized, 2)), r.files)
    ELSE OrElse(resolve_through_aliases(r.alias_rules, normalized, r.files),
                IF ~looks_like_package_specifier(normalized)
                THEN resolve_through_base_dirs(r.base_dirs, normalized, r.files)
                ELSE None)

resolve_specifier(r, from_file, specifier) ==
    resolve_normalized(r, from_file, normalize_specifier(specifier))

\* Iterator::any over the alias rules, which stops at the first rule that
\* matches: "true", "false", or "panic" when match_alias panics first.
RECURSIVE any_alias_matches(_, _)
any_alias_matches(rules, normalized) ==
    IF rules = <<>> THEN "false"
    ELSE LET star == match_alias(Head(rules).key, normalized)
         IN IF star = Panic THEN "panic"
            ELSE IF star # None THEN "true"
            ELSE any_alias_matches(Tail(rules), normalized)

\* is_likely_local_specifier after the alias rules have come to matched.
likely_after_aliases(normalized, matched) ==
    IF matched # "false" THEN matched
    ELSE IF looks_like_package_specifier(normalized) THEN "false" ELSE "true"

\* What is_likely_local_specifier comes to from the normalized specifier
\* on: "true", "false", or "panic" when match_alias panics on a rule before
\* a rule matches.
likely_local_outcome(r, normalized) ==
    IF normalized = "" THEN "false"
    ELSE IF is_relative_specifier(normalized) \/ StartsWith(normalized, "/") THEN "true"
    ELSE likely_after_aliases(normalized, any_alias_matches(r.alias_rules, normalized))

\* The bool a call returns, or Panic.
Answer(outcome) == IF outcome = "panic" THEN Panic ELSE outcome = "true"

\* Resolver::is_likely_local_specifier from the normalized specifier on:
\* TRUE, FALSE or Panic.
is_likely_local_normalized(r, normalized) == Answer(likely_local_outcome(r, normalized))

is_likely_local_specifier(r, specifier) ==
    is_likely_local_normalized(r, normalize_specifier(specifier))

\* Resolver::local_specifier_exists
\* One rule of the alias loop of local_specifier_exists; star is what
\* match_alias returned for the rule.
alias_target_exists(rule, star) ==
    /\ star \notin {None, Panic}
    /\ local_target_exists(Join(rule.base_dir, apply_alias_target(rule.target, star[1])))

exists_below(parent, normalized) ==
    parent # None /\ local_target_exists(Join(parent[1], normalized))

\* The alias loop of local_specifier_exists: "true" at the first rule whose
\* substituted target exists, "panic" when match_alias panics before that.
RECURSIVE any_alias_target_exists(_, _)
any_alias_target_exists(rules, normalized) ==
    IF rules = <<>> THEN "false"
    ELSE LET star == match_alias(Head(rules).key, normalized)
         IN IF star = Panic THEN "panic"
            ELSE IF alias_target_exists(Head(rules), star) THEN "true"
            ELSE any_alias_target_exists(Tail(rules), normalized)

\* "true" or "false" for a bool
Told(answer) == IF answer THEN "true" ELSE "false"

\* The base directories of local_specifier_exists, after the alias loop has
\* ended with aliased.
exists_in_base_dirs(r, normalized, aliased) ==
    IF aliased # "false" THEN aliased
    ELSE Told(/\ ~looks_like_package_specifier(normalized)
              /\ \E i \in DOMAIN r.base_dirs :
                     local_target_exists(Join(r.base_dirs[i], normalized)))

\* What local_specifier_exists comes to from the normalized specifier on:
\* "true", "false" or "panic".
local_exists_outcome(r, from_file, normalized) ==
    IF normalized = "" THEN "false"
    ELSE IF is_relative_specifier(normalized)
    THEN Told(exists_below(Parent(from_file), normalized))
    ELSE IF StartsWith(normalized, "/")
    THEN Told(local_target_exists(Join(r.root, From(normalized, 2))))
    ELSE exists_in_base_dirs(r, normalized,
                             any_alias_target_exists(r.alias_rules, normalized))

\* local_specifier_exists from the normalized specifier on: TRUE, FALSE or
\* Panic.
local_normalized_exists(r, from_file, normalized) ==
    Answer(local_exists_outcome(r, from_file, normalized))

local_specifier_exists(r, from_file, specifier) ==
    local_normalized_exists(r, from_file, normalize_specifier(specifier))


(***************************************************************************)
(* The regex crate, as lib.rs, parser.rs and output.rs use it: Regex::new   *)
(* and RegexBuilder::new(pattern).case_insensitive(true).build(), is_match  *)
(* and captures_iter.  A pattern is parsed into a tree.  is_match is        *)
(* decided by the set of positions at which a match that starts at a given  *)
(* position can end; the captures are those of the match the crate          *)
(* prefers, which is the first one a backtracking search finds.  Modelled   *)
(* are literals, ".", "^" and "$", alternation, groups (capturing, named    *)
(* and "(?:"), the flags i, s, m and U, the repetitions * + ? {n} {n,}      *)
(* {n,m} (greedy or lazy, with the whitespace the crate allows around a     *)
(* count), bracketed classes with ranges, negation,                         *)
(* nesting, the [:name:] classes and the set operators, and the escapes of  *)
(* punctuation, \d \s \w, \b \B and the \b{..} forms, \A \z, \n \t \r \f \a  *)
(* \v and the hexadecimal escapes.  Look-around and back-references do not  *)
(* compile, as in the crate.  The Unicode classes \p and \P, the flags x,   *)
(* R and -u, the counts above RepeatLimit and the characters outside the    *)
(* alphabet lie outside this fragment: Unmodelled gives a pattern that uses *)
(* them no outcome at all.                                                  *)
(***************************************************************************)
\* the character at index i, "" past the ends
At(s, i) == IF 1 <= i /\ i <= Len(s) THEN Char(s, i) ELSE ""

Digits == "0123456789"

\* the first index from i on that holds no decimal digit
RECURSIVE DigitsEnd(_, _)
DigitsEnd(s, i) ==
    IF At(s, i) # "" /\ Contains(Digits, At(s, i)) THEN DigitsEnd(s, i + 1) ELSE i

\* the number a string of decimal digits stands for
RECURSIVE ToNat(_)
ToNat(digits) ==
    IF digits = "" THEN 0
    ELSE 10 * ToNat(SubSeq(digits, 1, Len(digits) - 1))
         + (Find(Digits, Char(digits, Len(digits))) - 1)

\* What lies outside the modelled fragment has no outcome here.
Unmodelled(what) == CHOOSE outcome \in {} : outcome = what

\* The letters from U+00A0 to U+00FF, those with two cases in two rows of
\* the same order.
LatinUpper == "ÀÁÂÃÄÅÆÇÈÉÊËÌÍÎÏÐÑÒÓÔÕÖØÙÚÛÜÝÞ"

LatinLower == "àáâãäåæçèéêëìíîïðñòóôõöøùúûüýþ"

LatinLetters == LatinUpper \o LatinLower \o "ªµºßÿ"

\* char::from_u32 within the alphabet
FromCode(code) ==
    IF \E c \in DOMAIN CodePoints : CodePoints[c] = code
    THEN CHOOSE c \in DOMAIN CodePoints : CodePoints[c] = code
    ELSE Unmodelled("a character outside the alphabet")

\* The flags in force: case_insensitive(true) sets i; U swaps the greedy and
\* the lazy repetitions.
Flags(i, s, m) == [i |-> i, s |-> s, m |-> m, U |-> FALSE]

\* The nodes of a parsed pattern.
Lit(c, flags) == [k |-> "lit", c |-> c, ci |-> flags.i]

AnyChar(flags) == [k |-> "any", dotall |-> flags.s]

Look(which) == [k |-> "look", which |-> which]

Perl(c) == [k |-> "perl", c |-> c]

Posix(name, negated) == [k |-> "posix", name |-> name, negated |-> negated]

CharRange(lo, hi) == [k |-> "range", lo |-> lo, hi |-> hi]

\* an operation of two sets of class items: "&&", "--" or "~~"
ClassOp(kind, lhs, rhs, flags) ==
    [k |-> "op", kind |-> kind, lhs |-> lhs, rhs |-> rhs, ci |-> flags.i]

Class(negated, items, flags) ==
    [k |-> "class", negated |-> negated, items |-> items, ci |-> flags.i]

Concat(xs) == [k |-> "concat", xs |-> xs]

Alternation(a, b) == [k |-> "alt", a |-> a, b |-> b]

\* max = -1: no upper bound; counted: written with braces
Repetition(x, min, max, lazy, counted) ==
    [k |-> "rep", x |-> x, min |-> min, max |-> max, lazy |-> lazy, counted |-> counted]

\* a capturing group, told apart by the index of its "(" in the pattern
Group(at, name, x) == [k |-> "group", at |-> at, name |-> name, x |-> x]

\* The outcome of a parsing step: the node, the index after it, the flags in
\* force from there on, and whether the node can be repeated.
Parsed(node, pos, flags, repeatable) ==
    [ok |-> TRUE, node |-> node, pos |-> pos, flags |-> flags, repeatable |-> repeatable]

Bad == [ok |-> FALSE, node |-> <<>>, pos |-> 0, flags |-> <<>>, repeatable |-> FALSE]

\* is_escapeable_character: the ASCII characters that are neither letters nor
\* digits, "<" and ">" apart
is_escapeable_character(c) ==
    /\ CharCode(c) < 128
    /\ ~Contains(UpperCase \o LowerCase \o Digits \o "<>", c)

IsHexDigit(c) == c # "" /\ Contains("0123456789abcdefABCDEF", c)

HexDigitValue(c) ==
    (IF Contains("0123456789abcdef", c) THEN Find("0123456789abcdef", c)
     ELSE Find("0123456789ABCDEF", c)) - 1

\* the number a string of hexadecimal digits stands for
RECURSIVE HexValue(_)
HexValue(digits) ==
    IF digits = "" THEN 0
    ELSE 16 * HexValue(SubSeq(digits, 1, Len(digits) - 1))
         + HexDigitValue(Char(digits, Len(digits)))

\* char::from_u32(code): the surrogates and what lies above U+10FFFF are no
\* characters
HexLiteral(code, end, flags) ==
    IF code > 1114111 \/ (55296 <= code /\ code <= 57343) THEN Bad
    ELSE Parsed(Lit(FromCode(code), flags), end, flags, TRUE)

\* u32::from_str_radix(digits, 16).ok().and_then(char::from_u32): more than
\* six digits after the leading zeros name no character
HexChar(digits, end, flags) ==
    IF Len(TrimStartMatches(digits, "0")) > 6 THEN Bad
    ELSE HexLiteral(HexValue(TrimStartMatches(digits, "0")), end, flags)

\* the digits from index start to index last
HexDigitsAt(p, start, last, flags) ==
    IF last < start \/ last > Len(p) \/ \E n \in start..last : ~IsHexDigit(At(p, n)) THEN Bad
    ELSE HexChar(SubSeq(p, start, last), last + 1, flags)

\* \x, \u and \U, the backslash at index i: digits in braces, or two, four
\* and eight digits
HexEscape(p, i, flags) ==
    IF At(p, i + 2) = "{"
    THEN (IF Find(From(p, i + 3), "}") = 0 THEN Bad
          ELSE (IF HexDigitsAt(p, i + 3, i + 1 + Find(From(p, i + 3), "}"), flags).ok
                THEN [HexDigitsAt(p, i + 3, i + 1 + Find(From(p, i + 3), "}"), flags)
                         EXCEPT !.pos = @ + 1]
                ELSE Bad))
    ELSE HexDigitsAt(p, i + 2,
                     i + 1 + (CASE At(p, i + 1) = "x" -> 2
                                [] At(p, i + 1) = "u" -> 4
                                [] At(p, i + 1) = "U" -> 8),
                     flags)

\* the index after the run of the characters of a word boundary name
RECURSIVE BoundaryNameEnd(_, _)
BoundaryNameEnd(p, j) ==
    IF At(p, j) # "" /\ Contains(UpperCase \o LowerCase \o "-", At(p, j))
    THEN BoundaryNameEnd(p, j + 1) ELSE j

SpecialWordBoundary(p, start, end, flags) ==
    IF At(p, end) # "}" THEN Bad
    ELSE CASE SubSeq(p, start, end - 1) = "start" ->
                  Parsed(Look("word_start"), end + 1, flags, TRUE)
           [] SubSeq(p, start, end - 1) = "end" ->
                  Parsed(Look("word_end"), end + 1, flags, TRUE)
           [] SubSeq(p, start, end - 1) = "start-half" ->
                  Parsed(Look("word_start_half"), end + 1, flags, TRUE)
           [] SubSeq(p, start, end - 1) = "end-half" ->
                  Parsed(Look("word_end_half"), end + 1, flags, TRUE)
           [] OTHER -> Bad

\* \b at index i: \b{start}, \b{end}, \b{start-half} and \b{end-half} when a
\* brace and a character of such a name follow
WordBoundary(p, i, flags) ==
    IF At(p, i + 2) = "{" /\ BoundaryNameEnd(p, i + 3) > i + 3
    THEN SpecialWordBoundary(p, i + 3, BoundaryNameEnd(p, i + 3), flags)
    ELSE Parsed(Look("word"), i + 2, flags, TRUE)

\* the escape of the character e, the backslash at index i
EscapeOf(p, e, i, flags) ==
    CASE e = "" -> Bad
      [] e \in {"x", "u", "U"} -> HexEscape(p, i, flags)
      [] e \in {"p", "P"} -> Unmodelled("a Unicode class")
      [] e \in {"d", "D", "s", "S", "w", "W"} ->
             Parsed(Class(FALSE, <<Perl(e)>>, flags), i + 2, flags, TRUE)
      [] e = "a" -> Parsed(Lit(FromCode(7), flags), i + 2, flags, TRUE)
      [] e = "f" -> Parsed(Lit("\f", flags), i + 2, flags, TRUE)
      [] e = "t" -> Parsed(Lit("\t", flags), i + 2, flags, TRUE)
      [] e = "n" -> Parsed(Lit("\n", flags), i + 2, flags, TRUE)
      [] e = "r" -> Parsed(Lit("\r", flags), i + 2, flags, TRUE)
      [] e = "v" -> Parsed(Lit(FromCode(11), flags), i + 2, flags, TRUE)
      [] e = "A" -> Parsed(Look("start"), i + 2, flags, TRUE)
      [] e = "z" -> Parsed(Look("end"), i + 2, flags, TRUE)
      [] e = "b" -> WordBoundary(p, i, flags)
      [] e = "B" -> Parsed(Look("not_word"), i + 2, flags, TRUE)
      [] e = "<" -> Parsed(Look("word_start"), i + 2, flags, TRUE)
      [] e = ">" -> Parsed(Look("word_end"), i + 2, flags, TRUE)
      [] e # "" /\ is_escapeable_character(e) -> Parsed(Lit(e, flags), i + 2, flags, TRUE)
      [] OTHER -> Bad

\* a backslash at index i
ParseEscape(p, i, flags) == EscapeOf(p, At(p, i + 1), i, flags)

PosixNames ==
    {"alnum", "alpha", "ascii", "blank", "cntrl", "digit", "graph", "lower", "print",
     "punct", "space", "upper", "word", "xdigit"}

\* the index at which the name of [:name:] or [:^name:] starts, the bracket
\* at index j
PosixStart(p, j) == IF At(p, j + 2) = "^" THEN j + 3 ELSE j + 2

\* the name from index start on ends before the ":]" found at offset close
PosixNamed(p, j, start, close, flags) ==
    IF At(p, j + 1) = ":" /\ close # 0 /\ SubSeq(p, start, start + close - 2) \in PosixNames
    THEN Parsed(Posix(SubSeq(p, start, start + close - 2), At(p, j + 2) = "^"),
                start + close + 1, flags, TRUE)
    ELSE Bad

\* maybe_parse_ascii_class: [:name:] or [:^name:] at index j of a class, or
\* Bad when the text is none, so that the bracket opens a nested class
ParsePosix(p, j, flags) ==
    PosixNamed(p, j, PosixStart(p, j), Find(From(p, PosixStart(p, j)), ":]"), flags)

\* an escape inside a class: the assertions are none
ClassEscape(escaped) == IF escaped.ok /\ escaped.node.k # "look" THEN escaped ELSE Bad

\* parse_set_class_item: one end of a range, or a single member, at index j
ParseClassMember(p, j, flags) ==
    IF At(p, j) = "" THEN Bad
    ELSE IF At(p, j) = "\\" THEN ClassEscape(ParseEscape(p, j, flags))
    ELSE Parsed(Lit(At(p, j), flags), j + 1, flags, TRUE)

\* a set operator of the class syntax at index j
ClassOperatorAt(p, j) ==
    \/ At(p, j) = "&" /\ At(p, j + 1) = "&"
    \/ At(p, j) = "-" /\ At(p, j + 1) = "-"
    \/ At(p, j) = "~" /\ At(p, j + 1) = "~"

\* a parsed member as an item of a class
MemberItem(node) == IF node.k = "lit" THEN CharRange(node.c, node.c) ELSE node.items[1]

\* pop_class_op: the items are the right side of the operator that waits, if
\* one does; pending is <<>> or <<operator, left side>>
ClassSetOf(pending, items, flags) ==
    IF pending = <<>> THEN items
    ELSE <<ClassOp(pending[1], pending[2], items, flags)>>

RECURSIVE ParseClass(_, _, _)
RECURSIVE ParseClassItems(_, _, _, _, _)
\* the range from the member lo to the member hi
ClassRangeTo(p, lo, hi, pending, items, flags) ==
    IF ~hi.ok \/ lo.node.k # "lit" \/ hi.node.k # "lit" THEN Bad
    ELSE IF CharCode(hi.node.c) < CharCode(lo.node.c) THEN Bad
    ELSE ParseClassItems(p, hi.pos, pending,
                         Append(items, CharRange(lo.node.c, hi.node.c)), flags)

\* parse_set_class_range, the member lo parsed: a range when "-" follows, but
\* for "-]" and "--"
ClassRange(p, lo, pending, items, flags) ==
    IF ~lo.ok THEN Bad
    ELSE IF At(p, lo.pos) = "-" /\ At(p, lo.pos + 1) \notin {"]", "-"}
    THEN ClassRangeTo(p, lo, ParseClassMember(p, lo.pos + 1, flags), pending, items, flags)
    ELSE ParseClassItems(p, lo.pos, pending, Append(items, MemberItem(lo.node)), flags)

\* a class inside a class
ClassNested(p, nested, pending, items, flags) ==
    IF ~nested.ok THEN Bad
    ELSE ParseClassItems(p, nested.pos, pending, Append(items, nested.node), flags)

\* a "[" at index j of a class: [:name:] when posix is one, a nested class
\* otherwise
ClassBracket(p, j, posix, pending, items, flags) ==
    IF posix.ok THEN ParseClassItems(p, posix.pos, pending, Append(items, posix.node), flags)
    ELSE ClassNested(p, ParseClass(p, j, flags), pending, items, flags)

\* The loop of parse_set_class from index j to the closing bracket: items
\* holds the members read since the opening or the last operator.  The
\* operators are of one rank and group to the left.
ParseClassItems(p, j, pending, items, flags) ==
    IF At(p, j) = "" THEN Bad
    ELSE IF At(p, j) = "]"
    THEN Parsed(ClassSetOf(pending, items, flags), j + 1, flags, TRUE)
    ELSE IF At(p, j) = "[" THEN ClassBracket(p, j, ParsePosix(p, j, flags), pending, items, flags)
    ELSE IF ClassOperatorAt(p, j)
    THEN ParseClassItems(p, j + 2, <<SubSeq(p, j, j + 1), ClassSetOf(pending, items, flags)>>,
                         <<>>, flags)
    ELSE ClassRange(p, ParseClassMember(p, j, flags), pending, items, flags)

ClassParsed(negated, items, flags) ==
    IF ~items.ok THEN Bad
    ELSE Parsed(Class(negated, items.node, flags), items.pos, flags, TRUE)

\* the index after the "-" that stand in a row from index j on
RECURSIVE DashesEnd(_, _)
DashesEnd(p, j) == IF At(p, j) = "-" THEN DashesEnd(p, j + 1) ELSE j

\* parse_set_class_open from the index j after the "[" and the "^": each "-"
\* that comes first is a member, and so is a "]" that comes first of all
ClassFirstItems(p, j, dashes_end) ==
    IF dashes_end = j /\ At(p, j) = "]" THEN <<CharRange("]", "]")>>
    ELSE [n \in 1..(dashes_end - j) |-> CharRange("-", "-")]

\* the index after the members that come first
ClassFirstEnd(p, j, dashes_end) ==
    IF dashes_end = j /\ At(p, j) = "]" THEN j + 1 ELSE dashes_end

ClassOpened(p, j, dashes_end, negated, flags) ==
    ClassParsed(negated,
                ParseClassItems(p, ClassFirstEnd(p, j, dashes_end), <<>>,
                                ClassFirstItems(p, j, dashes_end), flags),
                flags)

\* the index after the "[" and the "^" of the class at index i
ClassStart(p, i) == IF At(p, i + 1) = "^" THEN i + 2 ELSE i + 1

\* a "[" at index i
ParseClass(p, i, flags) ==
    ClassOpened(p, ClassStart(p, i), DashesEnd(p, ClassStart(p, i)), At(p, i + 1) = "^", flags)

\* The flags of "(?flags)" and "(?flags:" from index j on: on is FALSE after
\* the "-", bare is TRUE while no flag has followed the "(?" or the "-", and
\* had holds the flags read, none of which may come twice.  The flags x and
\* R, and the Unicode mode switched off, lie outside the fragment.
RECURSIVE ParseFlags(_, _, _, _, _, _)
FlagSet(p, j, c, flags, on, had) ==
    CASE c = "i" -> ParseFlags(p, j + 1, [flags EXCEPT !.i = on], on, FALSE, had \cup {c})
      [] c = "s" -> ParseFlags(p, j + 1, [flags EXCEPT !.s = on], on, FALSE, had \cup {c})
      [] c = "m" -> ParseFlags(p, j + 1, [flags EXCEPT !.m = on], on, FALSE, had \cup {c})
      [] c = "U" -> ParseFlags(p, j + 1, [flags EXCEPT !.U = on], on, FALSE, had \cup {c})
      [] c = "u" /\ on -> ParseFlags(p, j + 1, flags, on, FALSE, had \cup {c})
      [] c \in {"x", "R"} /\ ~on -> ParseFlags(p, j + 1, flags, on, FALSE, had \cup {c})
      [] OTHER -> Unmodelled("the flags x, R and -u")

FlagAt(p, j, c, flags, on, bare, had) ==
    IF c \in {")", ":"} THEN IF bare THEN Bad ELSE Parsed(<<>>, j, flags, FALSE)
    ELSE IF c = "-" THEN IF on THEN ParseFlags(p, j + 1, flags, FALSE, TRUE, had) ELSE Bad
    ELSE IF c \notin {"i", "s", "m", "U", "u", "x", "R"} \/ c \in had THEN Bad
    ELSE FlagSet(p, j, c, flags, on, had)

ParseFlags(p, j, flags, on, bare, had) == FlagAt(p, j, At(p, j), flags, on, bare, had)

\* is_capture_char: a name starts with "_" or a letter and goes on with
\* these, digits, ".", "[" and "]"
NameStart == UpperCase \o LowerCase \o "_" \o LatinLetters

NameChars == NameStart \o Digits \o ".[]" \o "²³¹¼½¾"

\* the name of a capture group: from index j to the ">" that ends it
ValidGroupName(p, j, close) ==
    /\ close > j
    /\ Contains(NameStart, At(p, j))
    /\ \A n \in j..(close - 1) : Contains(NameChars, At(p, n))

RECURSIVE ParseAlternation(_, _, _)
RECURSIVE ParseConcat(_, _)
\* the closing parenthesis after the inside of a group; the flags set inside
\* end with the group; at is 0 for a group that captures nothing
GroupClosed(p, inner, flags, at, name) ==
    IF ~inner.ok \/ At(p, inner.pos) # ")" THEN Bad
    ELSE Parsed(IF at = 0 THEN inner.node ELSE Group(at, name, inner.node), inner.pos + 1,
                flags, TRUE)

\* the inside of a group from index j on, and its closing parenthesis
ParseGroupBody(p, j, inner_flags, flags, at, name) ==
    GroupClosed(p, ParseAlternation(p, j, inner_flags), flags, at, name)

\* the index at which the name of "(?<name>" or "(?P<name>" starts
GroupNameAt(p, i) == IF At(p, i + 2) = "<" THEN i + 3 ELSE i + 4

\* a named group, its name from index start to the ">" at index close
NamedGroup(p, i, start, close, flags) ==
    IF ValidGroupName(p, start, close)
    THEN ParseGroupBody(p, close + 1, flags, flags, i, SubSeq(p, start, close - 1))
    ELSE Bad

\* "(?flags)" sets the flags from there on, "(?flags:" inside the group
FlagGroup(p, set, flags) ==
    IF ~set.ok THEN Bad
    ELSE IF At(p, set.pos) = ":" THEN ParseGroupBody(p, set.pos + 1, set.flags, flags, 0, "")
    ELSE Parsed(Concat(<<>>), set.pos + 1, set.flags, FALSE)

\* a "(" at index i
ParseGroup(p, i, flags) ==
    IF At(p, i + 1) # "?" THEN ParseGroupBody(p, i + 1, flags, flags, i, "")
    ELSE IF At(p, i + 2) = ":" THEN ParseGroupBody(p, i + 3, flags, flags, 0, "")
    ELSE IF At(p, i + 2) \in {"=", "!"} THEN Bad
    ELSE IF At(p, i + 2) = "<" /\ At(p, i + 3) \in {"=", "!"} THEN Bad
    ELSE IF At(p, i + 2) = "<" \/ (At(p, i + 2) = "P" /\ At(p, i + 3) = "<")
    THEN NamedGroup(p, i, GroupNameAt(p, i),
                    GroupNameAt(p, i) + Find(From(p, GroupNameAt(p, i)), ">") - 1, flags)
    ELSE FlagGroup(p, ParseFlags(p, i + 2, flags, TRUE, TRUE, {}), flags)

\* one expression that is no repetition, at index i
ParseAtom(p, i, flags) ==
    CASE At(p, i) = "(" -> ParseGroup(p, i, flags)
      [] At(p, i) = "[" -> ParseClass(p, i, flags)
      [] At(p, i) = "\\" -> ParseEscape(p, i, flags)
      [] At(p, i) = "." -> Parsed(AnyChar(flags), i + 1, flags, TRUE)
      [] At(p, i) = "^" ->
             Parsed(Look(IF flags.m THEN "start_line" ELSE "start"), i + 1, flags, TRUE)
      [] At(p, i) = "$" ->
             Parsed(Look(IF flags.m THEN "end_line" ELSE "end"), i + 1, flags, TRUE)
      [] OTHER -> Parsed(Lit(At(p, i), flags), i + 1, flags, TRUE)

\* A "?" after a repetition operator makes it lazy.
IsLazy(p, pos) == At(p, pos) = "?"

\* the index after the repetition operator that ends before index pos
Lazy(p, pos) == IF IsLazy(p, pos) THEN pos + 1 ELSE pos

\* The crate refuses a pattern whose program outgrows its size limit.  That
\* limit is not modelled: the patterns are taken to stay below it, and a
\* count above RepeatLimit has no outcome here.
RepeatLimit == 8

\* the count a string of decimal digits stands for
CountOf(digits) ==
    IF Len(TrimStartMatches(digits, "0")) > 3 \/ ToNat(digits) > RepeatLimit
    THEN Unmodelled("a count above the limit")
    ELSE ToNat(digits)

\* the first index from i on that holds no whitespace
RECURSIVE SpaceEnd(_, _)
SpaceEnd(s, i) == IF IsWs(At(s, i)) THEN SpaceEnd(s, i + 1) ELSE i

\* "{n,m}": n is read; parse_decimal has skipped the whitespace before
\* index m_start, read the digits of m before index m_end and skipped the
\* whitespace before index m_next
CountRange(p, n, m_start, m_end, m_next) ==
    IF m_end = m_start \/ At(p, m_next) # "}" THEN <<>>
    ELSE IF CountOf(SubSeq(p, m_start, m_end - 1)) < n THEN <<>>
    ELSE <<n, CountOf(SubSeq(p, m_start, m_end - 1)), Lazy(p, m_next + 1),
           IsLazy(p, m_next + 1)>>

\* "{n}", "{n,}" and "{n,m}": parse_decimal has skipped the whitespace before
\* index n_start, read the digits of n before index n_end and skipped the
\* whitespace before index next.  A "}" straight after the comma leaves the
\* count open above; anything else there starts the decimal m.
CountAt(p, n_start, n_end, next) ==
    IF n_end = n_start THEN <<>>
    ELSE IF At(p, next) = "}"
    THEN <<CountOf(SubSeq(p, n_start, n_end - 1)), CountOf(SubSeq(p, n_start, n_end - 1)),
           Lazy(p, next + 1), IsLazy(p, next + 1)>>
    ELSE IF At(p, next) # "," THEN <<>>
    ELSE IF At(p, next + 1) = "}"
    THEN <<CountOf(SubSeq(p, n_start, n_end - 1)), -1,
           Lazy(p, next + 2), IsLazy(p, next + 2)>>
    ELSE CountRange(p, CountOf(SubSeq(p, n_start, n_end - 1)),
                    SpaceEnd(p, next + 1), DigitsEnd(p, SpaceEnd(p, next + 1)),
                    SpaceEnd(p, DigitsEnd(p, SpaceEnd(p, next + 1))))

\* The bounds of the repetition operator at index i, the index after it and
\* whether it is lazy: <<min, max, pos, lazy>>, or <<>> when "{" opens no
\* valid count.
RepetitionAt(p, i) ==
    IF At(p, i) = "*" THEN <<0, -1, Lazy(p, i + 1), IsLazy(p, i + 1)>>
    ELSE IF At(p, i) = "+" THEN <<1, -1, Lazy(p, i + 1), IsLazy(p, i + 1)>>
    ELSE IF At(p, i) = "?" THEN <<0, 1, Lazy(p, i + 1), IsLazy(p, i + 1)>>
    ELSE CountAt(p, SpaceEnd(p, i + 1), DigitsEnd(p, SpaceEnd(p, i + 1)),
                 SpaceEnd(p, DigitsEnd(p, SpaceEnd(p, i + 1))))

\* whether a tree holds a counted repetition
RECURSIVE HoldsCount(_)
HoldsCount(node) ==
    CASE node.k = "rep" -> node.counted \/ HoldsCount(node.x)
      [] node.k = "group" -> HoldsCount(node.x)
      [] node.k = "concat" -> \E n \in DOMAIN node.xs : HoldsCount(node.xs[n])
      [] node.k = "alt" -> HoldsCount(node.a) \/ HoldsCount(node.b)
      [] OTHER -> FALSE

\* The last of the items under the repetition bounds; the flag U swaps the
\* greedy and the lazy operators.  A count applied to a count multiplies the
\* size of the program and is left out as the counts above the limit are.
Repeated(items, bounds, counted, flags) ==
    IF counted /\ HoldsCount(items[Len(items)]) THEN Unmodelled("a count of a count")
    ELSE [items EXCEPT ![Len(items)] =
             Repetition(@, bounds[1], bounds[2], bounds[4] # flags.U, counted)]

\* A concatenation is parsed step by step, done being the outcome of the
\* steps so far: the items parsed, the index after them, the flags in force
\* and whether the last item can be repeated.
\* A repetition operator needs an expression before it.
ConcatRepeated(p, done, bounds) ==
    IF done.node = <<>> \/ ~done.repeatable \/ bounds = <<>> THEN Bad
    ELSE Parsed(Repeated(done.node, bounds, At(p, done.pos) = "{", done.flags), bounds[3],
                done.flags, TRUE)

ConcatAtom(done, atom) ==
    IF ~atom.ok THEN Bad
    ELSE Parsed(Append(done.node, atom.node), atom.pos, atom.flags, atom.repeatable)

\* the characters of a pattern that do not stand for themselves
MetaChars == CharsOf("\\.*+?(){}[]|^$")

\* the characters from the index after done up to the index before end, each
\* standing for itself
ConcatLiterals(p, done, end) ==
    Parsed(done.node \o [n \in 1..(end - done.pos) |-> Lit(At(p, done.pos + n - 1), done.flags)],
           end, done.flags, TRUE)

\* A concatenation up to a "|", a ")" or the end.  Characters that stand for
\* themselves are taken in one step up to the next that does not.
ParseConcat(p, done) ==
    CASE ~done.ok -> Bad
      [] done.ok /\ At(p, done.pos) \in {"", "|", ")"} ->
             Parsed(Concat(done.node), done.pos, done.flags, FALSE)
      [] done.ok /\ At(p, done.pos) \in {"*", "+", "?", "{"} ->
             ParseConcat(p, ConcatRepeated(p, done, RepetitionAt(p, done.pos)))
      [] done.ok /\ At(p, done.pos) \notin MetaChars \cup {""} ->
             ParseConcat(p, ConcatLiterals(p, done, FirstOf(p, done.pos, MetaChars)))
      [] OTHER -> ParseConcat(p, ConcatAtom(done, ParseAtom(p, done.pos, done.flags)))

AlternationJoin(first, rest) ==
    IF ~rest.ok THEN Bad
    ELSE Parsed(Alternation(first.node, rest.node), rest.pos, rest.flags, FALSE)

\* the alternatives after the first
AlternationAfter(p, first) ==
    CASE ~first.ok -> Bad
      [] first.ok /\ At(p, first.pos) # "|" -> first
      [] OTHER -> AlternationJoin(first, ParseAlternation(p, first.pos + 1, first.flags))

\* The alternatives from index i up to a ")" or the end; an alternative may
\* be empty, and a flag set in one is in force in the next.
ParseAlternation(p, i, flags) ==
    AlternationAfter(p, ParseConcat(p, Parsed(<<>>, i, flags, FALSE)))

\* the names of the named groups of a tree, one for each group
RECURSIVE GroupNames(_)
GroupNames(node) ==
    CASE node.k = "group" ->
             (IF node.name = "" THEN <<>> ELSE <<node.name>>) \o GroupNames(node.x)
      [] node.k = "concat" -> Flatten([n \in DOMAIN node.xs |-> GroupNames(node.xs[n])])
      [] node.k = "alt" -> GroupNames(node.a) \o GroupNames(node.b)
      [] node.k = "rep" -> GroupNames(node.x)
      [] OTHER -> <<>>

\* no two groups of a pattern have one name
NamesDiffer(names) == \A m, n \in DOMAIN names : names[m] = names[n] => m = n

\* a ")" that closes no group ends the parse before the end of the pattern
Compiled(pattern, parsed) ==
    IF parsed.ok /\ parsed.pos = Len(pattern) + 1 /\ NamesDiffer(GroupNames(parsed.node))
    THEN Some(parsed.node) ELSE None

\* \w: the patterns are Unicode-aware
WordChars == CharsOf(UpperCase \o LowerCase \o Digits \o "_" \o LatinLetters)

IsWordChar(c) == c \in WordChars

\* \s: the characters with the property White_Space
IsSpaceChar(c) == IsWs(c)

\* the other case of a letter, any other character itself
SwapCase(c) ==
    IF Contains(UpperCase, c) THEN Char(LowerCase, Find(UpperCase, c))
    ELSE IF Contains(LowerCase, c) THEN Char(UpperCase, Find(LowerCase, c))
    ELSE IF Contains(LatinUpper, c) THEN Char(LatinLower, Find(LatinUpper, c))
    ELSE IF Contains(LatinLower, c) THEN Char(LatinUpper, Find(LatinLower, c))
    ELSE c

PerlHas(c, ch) ==
    CASE c = "d" -> Contains(Digits, ch)
      [] c = "D" -> ~Contains(Digits, ch)
      [] c = "s" -> IsSpaceChar(ch)
      [] c = "S" -> ~IsSpaceChar(ch)
      [] c = "w" -> IsWordChar(ch)
      [] c = "W" -> ~IsWordChar(ch)

\* code is the code point of ch
PosixHolds(name, ch, code) ==
    CASE name = "alnum" -> Contains(UpperCase \o LowerCase \o Digits, ch)
      [] name = "alpha" -> Contains(UpperCase \o LowerCase, ch)
      [] name = "ascii" -> code <= 127
      [] name = "blank" -> ch \in {" ", "\t"}
      [] name = "cntrl" -> code < 32 \/ code = 127
      [] name = "digit" -> Contains(Digits, ch)
      [] name = "graph" -> 33 <= code /\ code <= 126
      [] name = "lower" -> Contains(LowerCase, ch)
      [] name = "print" -> 32 <= code /\ code <= 126
      [] name = "punct" ->
             /\ 33 <= code /\ code <= 126
             /\ ~Contains(UpperCase \o LowerCase \o Digits, ch)
      [] name = "space" -> (9 <= code /\ code <= 13) \/ ch = " "
      [] name = "upper" -> Contains(UpperCase, ch)
      [] name = "word" -> Contains(UpperCase \o LowerCase \o Digits \o "_", ch)
      [] name = "xdigit" -> Contains(Digits \o "abcdefABCDEF", ch)

PosixHas(name, ch) == PosixHolds(name, ch, CharCode(ch))

\* Whether a class holds a character.  Under the flag i a class holds a
\* letter when it holds the letter in either case, and the negation is taken
\* after that; the two sides of a set operator are folded likewise before
\* the operator is applied.
RECURSIVE ClassHas(_, _)
RECURSIVE ItemHas(_, _)
SetHas(items, ch) == \E n \in DOMAIN items : ItemHas(items[n], ch)

\* the character and, under the flag i, the character in the other case
FoldedChars(ch, ci) == IF ci THEN {ch, SwapCase(ch)} ELSE {ch}

FoldedHas(items, ch, ci) == \E c \in FoldedChars(ch, ci) : SetHas(items, c)

OpHas(kind, left, right) ==
    CASE kind = "&&" -> left /\ right
      [] kind = "--" -> left /\ ~right
      [] kind = "~~" -> left # right

ItemHas(item, ch) ==
    CASE item.k = "range" ->
             IF item.lo = item.hi THEN ch = item.lo
             ELSE CharCode(item.lo) <= CharCode(ch) /\ CharCode(ch) <= CharCode(item.hi)
      [] item.k = "perl" -> PerlHas(item.c, ch)
      [] item.k = "posix" -> PosixHas(item.name, ch) # item.negated
      [] item.k = "class" -> ClassHas(item, ch)
      [] item.k = "op" ->
             OpHas(item.kind, FoldedHas(item.lhs, ch, item.ci),
                   FoldedHas(item.rhs, ch, item.ci))

ClassHas(class, ch) == FoldedHas(class.items, ch, class.ci) # class.negated

\* Whether the assertion holds between index i - 1 and index i of s.
LookHolds(which, s, i) ==
    CASE which = "start" -> i = 1
      [] which = "end" -> i = Len(s) + 1
      [] which = "start_line" -> i = 1 \/ At(s, i - 1) = "\n"
      [] which = "end_line" -> i = Len(s) + 1 \/ At(s, i) = "\n"
      [] which = "word" -> IsWordChar(At(s, i - 1)) # IsWordChar(At(s, i))
      [] which = "not_word" -> IsWordChar(At(s, i - 1)) = IsWordChar(At(s, i))
      [] which = "word_start" -> ~IsWordChar(At(s, i - 1)) /\ IsWordChar(At(s, i))
      [] which = "word_end" -> IsWordChar(At(s, i - 1)) /\ ~IsWordChar(At(s, i))
      [] which = "word_start_half" -> ~IsWordChar(At(s, i - 1))
      [] which = "word_end_half" -> ~IsWordChar(At(s, i))

\* Ends(node, s, i): the indices at which a match of node that starts at
\* index i of s can end (the index after its last character).
RECURSIVE Ends(_, _, _)
RECURSIVE EndsFrom(_, _, _)
RECURSIVE ConcatEnds(_, _, _)
RECURSIVE RepeatExactly(_, _, _, _)
RECURSIVE RepeatMore(_, _, _, _, _)
EndsFrom(node, s, starts) == UNION {Ends(node, s, i) : i \in starts}

\* the two halves of a sequence of trees
FirstHalf(xs) == SubSeq(xs, 1, Len(xs) \div 2)

SecondHalf(xs) == SubSeq(xs, Len(xs) \div 2 + 1, Len(xs))

\* the trees of xs one after another, taken half by half
ConcatEnds(xs, s, starts) ==
    IF xs = <<>> \/ starts = {} THEN starts
    ELSE IF Len(xs) = 1 THEN EndsFrom(xs[1], s, starts)
    ELSE ConcatEnds(SecondHalf(xs), s, ConcatEnds(FirstHalf(xs), s, starts))

\* n repetitions of node in a row
RepeatExactly(node, s, starts, n) ==
    IF n = 0 \/ starts = {} THEN starts
    ELSE RepeatExactly(node, s, EndsFrom(node, s, starts), n - 1)

\* up to more further repetitions (any number when more is negative): reached
\* are the ends found so far, frontier those of them found last
RepeatMore(node, s, reached, frontier, more) ==
    IF more = 0 \/ frontier = {} THEN reached
    ELSE RepeatMore(node, s, reached \cup EndsFrom(node, s, frontier),
                    EndsFrom(node, s, frontier) \ reached,
                    IF more < 0 THEN more ELSE more - 1)

\* a tree that matches one character
IsSingle(node) == node.k \in {"lit", "any", "class"}

\* The number of characters from index i on that the one-character tree
\* matches one after another.
RECURSIVE RunLength(_, _, _)
RunLength(node, s, i) == IF Ends(node, s, i) = {} THEN 0 ELSE 1 + RunLength(node, s, i + 1)

\* The numbers of rounds a repetition of a one-character tree can make when
\* the tree matches run characters one after another.
Rounds(rep, run) == rep.min..(IF rep.max < 0 \/ run < rep.max THEN run ELSE rep.max)

\* Besides the trees, Ends takes the mark of the search for the groups,
\* Progress, which matches the empty string anywhere but at the index it
\* holds.
Ends(node, s, i) ==
    CASE node.k = "lit" ->
             IF \/ At(s, i) = node.c
                \/ node.ci /\ At(s, i) # "" /\ SwapCase(At(s, i)) = node.c
             THEN {i + 1} ELSE {}
      [] node.k = "any" ->
             IF At(s, i) # "" /\ (node.dotall \/ At(s, i) # "\n") THEN {i + 1} ELSE {}
      [] node.k = "class" ->
             IF At(s, i) # "" /\ ClassHas(node, At(s, i)) THEN {i + 1} ELSE {}
      [] node.k = "look" -> IF LookHolds(node.which, s, i) THEN {i} ELSE {}
      [] node.k = "concat" -> ConcatEnds(node.xs, s, {i})
      [] node.k = "alt" -> Ends(node.a, s, i) \cup Ends(node.b, s, i)
      [] node.k = "group" -> Ends(node.x, s, i)
      [] node.k = "rep" /\ IsSingle(node.x) ->
             {i + n : n \in Rounds(node, RunLength(node.x, s, i))}
      [] node.k = "rep" /\ ~IsSingle(node.x) ->
             RepeatMore(node.x, s, RepeatExactly(node.x, s, {i}, node.min),
                        RepeatExactly(node.x, s, {i}, node.min),
                        IF node.max < 0 THEN -1 ELSE node.max - node.min)
      [] node.k = "progress" -> IF i = node.from THEN {} ELSE {i}

\* Regex::is_match: a match may start anywhere
is_match(re, path) == \E i \in 1..(Len(path) + 1) : Ends(re, path, i) # {}

\* Regex::new(pattern).unwrap(): no flag is set.
RegexNew(pattern) == Compiled(pattern, ParseAlternation(pattern, 1, Flags(FALSE, FALSE, FALSE)))[1]

\* The capturing groups of a tree.
RECURSIVE GroupsOf(_)
GroupsOf(node) ==
    CASE node.k = "group" -> {node.at} \cup GroupsOf(node.x)
      [] node.k = "concat" -> UNION {GroupsOf(node.xs[n]) : n \in DOMAIN node.xs}
      [] node.k = "alt" -> GroupsOf(node.a) \cup GroupsOf(node.b)
      [] node.k = "rep" -> GroupsOf(node.x)
      [] OTHER -> {}

\* The group with the number n: the groups are numbered in the order of their
\* opening parentheses.
GroupNumbered(re, n) ==
    CHOOSE g \in GroupsOf(re) : Cardinality({h \in GroupsOf(re) : h < g}) = n - 1

\* Progress lets a repetition go on only when its last round has matched
\* something.
Progress(from) == [k |-> "progress", from |-> from]

\* the repetition with one round less to go
OneLess(rep) ==
    Repetition(rep.x, IF rep.min > 0 THEN rep.min - 1 ELSE 0,
               IF rep.max < 0 THEN -1 ELSE rep.max - 1, rep.lazy, rep.counted)

\* whether the sequence trees matches from index i of s on
Matches(trees, s, i) == ConcatEnds(trees, s, {i}) # {}

\* where a part of a match ends, and the spans of the groups closed so far
Found(end, caps) == Some([end |-> end, caps |-> caps])

\* a group that opened at index start closes where its body ends; of the
\* rounds of a repeated group the last one stays
Closed(at, start, found) ==
    IF found = None THEN None
    ELSE Found(found[1].end,
               {c \in found[1].caps : c.at # at}
               \cup {[at |-> at, start |-> start, end |-> found[1].end]})

\* Run(xs, after, s, i, caps): the match of the trees xs from index i of s
\* on that a backtracking search finds first when the trees of after are to
\* match behind it, the earlier alternative and the greedy (or, when lazy,
\* the shorter) repetition tried first: None, or Some of the index after the
\* match and the spans of the groups.  Of the ways to go on, the search ends
\* in the first after which the rest matches.
RECURSIVE Run(_, _, _, _, _)
RunAfter(xs, after, s, found) ==
    IF found = None THEN None ELSE Run(xs, after, s, found[1].end, found[1].caps)

\* A repetition of a one-character tree, fits holding the numbers of rounds
\* after which the rest matches: the search meets the greatest number first,
\* or the least when the repetition is lazy.
RunRounds(lazy, i, caps, fits) ==
    IF fits = {} THEN None
    ELSE Found(i + (IF lazy THEN SetMin(fits) ELSE SetMax(fits)), caps)

\* one more round of a repetition
OneMore(rep, i) == <<rep.x, Progress(i), OneLess(rep)>>

RunRepetition(rep, after, s, i, caps) ==
    IF IsSingle(rep.x)
    THEN RunRounds(rep.lazy, i, caps,
                   {n \in Rounds(rep, RunLength(rep.x, s, i)) : Matches(after, s, i + n)})
    ELSE IF rep.min > 0 THEN Run(<<rep.x, OneLess(rep)>>, after, s, i, caps)
    ELSE IF rep.max = 0 THEN Found(i, caps)
    ELSE IF Matches(IF rep.lazy THEN after ELSE OneMore(rep, i) \o after, s, i) # rep.lazy
    THEN Run(OneMore(rep, i), after, s, i, caps)
    ELSE Found(i, caps)

\* a tree without a tree inside: the match ends where the tree ends
FoundLast(ends, caps) == IF ends = {} THEN None ELSE Found(SetMax(ends), caps)

RunNode(node, after, s, i, caps) ==
    CASE node.k \in {"lit", "any", "class", "look", "progress"} ->
             FoundLast(Ends(node, s, i), caps)
      [] node.k = "concat" -> Run(node.xs, after, s, i, caps)
      [] node.k = "alt" ->
             IF Matches(<<node.a>> \o after, s, i) THEN Run(<<node.a>>, after, s, i, caps)
             ELSE Run(<<node.b>>, after, s, i, caps)
      [] node.k = "group" -> Closed(node.at, i, Run(<<node.x>>, after, s, i, caps))
      [] node.k = "rep" -> RunRepetition(node, after, s, i, caps)

\* the trees of xs one after another, taken half by half
Run(xs, after, s, i, caps) ==
    IF xs = <<>> THEN Found(i, caps)
    ELSE IF Len(xs) = 1 THEN RunNode(xs[1], after, s, i, caps)
    ELSE RunAfter(SecondHalf(xs), after, s,
                  Run(FirstHalf(xs), SecondHalf(xs) \o after, s, i, caps))

\* The indexes of s at which a match of re starts.
MatchStarts(re, s) == {p \in 1..(Len(s) + 1) : Ends(re, s, p) # {}}

\* Regex::captures_iter: the matches from left to right, none overlapping
\* another; an empty match that ends where the match before it has ended is
\* passed over and the search goes on one character later.  last is the end
\* of the match before, 0 when there is none.
RECURSIVE CapturesFrom(_, _, _, _, _)
CapturesNext(re, s, starts, start, last, found) ==
    IF found[1].end = start /\ start = last
    THEN CapturesFrom(re, s, starts, start + 1, last)
    ELSE <<[start |-> start, end |-> found[1].end, caps |-> found[1].caps]>>
         \o CapturesFrom(re, s, starts, found[1].end, found[1].end)

CapturesFrom(re, s, starts, from, last) ==
    IF \A p \in starts : p < from THEN <<>>
    ELSE CapturesNext(re, s, starts, SetMin({p \in starts : p >= from}), last,
                      Run(<<re>>, <<>>, s, SetMin({p \in starts : p >= from}), {}))

captures_iter(re, s) == CapturesFrom(re, s, MatchStarts(re, s), 1, 0)

\* Captures::get(n).map(|m| m.as_str())
CaptureGet(re, s, caps, n) ==
    IF \E c \in caps.caps : c.at = GroupNumbered(re, n)
    THEN Some(SubSeq(s, (CHOOSE c \in caps.caps : c.at = GroupNumbered(re, n)).start,
                     (CHOOSE c \in caps.caps : c.at = GroupNumbered(re, n)).end - 1))
    ELSE None

(***************************************************************************)
(* The text of a source file is a sequence of statements, one per line.  A  *)
(* statement is a record [kind, text, spec]; SourceLine is the line it      *)
(* stands for.  The kinds are the statement families parse_module matches,  *)
(* plus plain code and line comments.                                       *)
(***************************************************************************)
SourceLine(st) ==
    CASE st.kind = "import_from" ->
             "import " \o st.text \o " from '" \o st.spec \o "'"
      [] st.kind = "import_side_effect" -> "import '" \o st.spec \o "'"
      [] st.kind = "require" -> "const " \o st.text \o " = require('" \o st.spec \o "')"
      [] st.kind = "destructure_require" ->
             "const { " \o st.text \o " } = require('" \o st.spec \o "')"
      [] st.kind = "dyn_import" -> "import('" \o st.spec \o "')"
      [] st.kind = "export_decl" -> "export const " \o st.text \o " = 1"
      [] st.kind = "export_list" ->
             "export { " \o st.text \o " }"
             \o (IF st.spec = "" THEN "" ELSE " from '" \o st.spec \o "'")
      [] st.kind = "export_default" -> "export default " \o st.text
      [] st.kind = "export_all" -> "export * from '" \o st.spec \o "'"
      [] st.kind = "glob" -> "import.meta.glob('" \o st.spec \o "')"
      [] st.kind = "comment" -> "// " \o st.text
      [] OTHER -> st.text

\* fs::read_to_string: the lines of the file.
SourceText(stmts) == JoinStr([i \in DOMAIN stmts |-> SourceLine(stmts[i])], "\n")

\* The content of a file whose bytes are no UTF-8 text.
NotUtf8 == <<[kind |-> "not_utf8", text |-> "", spec |-> ""]>>

\* fs::read_to_string(path) for a canonical path: None stands for its Err,
\* which it returns where no file is, for a directory and for a file whose
\* bytes are no UTF-8 text.
read_to_string(path) ==
    IF path \in DOMAIN configs THEN Some(configs[path])
    ELSE IF path = ManifestPath /\ manifest # None THEN manifest
    ELSE IF path \in DOMAIN disk /\ disk[path] # NotUtf8 THEN Some(SourceText(disk[path]))
    ELSE None

(***************************************************************************)
(* parser.rs                                                                *)
(***************************************************************************)
parse_export_names(names) ==
    LET trimmed == TrimEndMatches(TrimStartMatches(Trim(names), "{"), "}")
        parts == Split(trimmed, ",")
        exported(part) ==
            Trim(TrimStartMatches(
                     IF SplitOnce(part, " as ") # <<>>
                     THEN Trim(SplitOnce(part, " as ")[2]) ELSE part,
                     "type "))
    IN {exported(Trim(parts[i])) : i \in DOMAIN parts} \ {""}

parse_export_list_as_import(names, record) ==
    LET raw == Split(names, ",")
        parts == {Trim(raw[i]) : i \in DOMAIN raw} \ {""}
        import_name(part) ==
            Trim(TrimStartMatches(
                     IF SplitOnce(part, " as ") # <<>>
                     THEN Trim(SplitOnce(part, " as ")[1]) ELSE part,
                     "type "))
        named == {part \in parts : part # "default" /\ ~StartsWith(part, "*")}
    IN [record EXCEPT
           !.uses_default = @ \/ "default" \in parts,
           !.uses_namespace = @ \/ \E part \in parts : StartsWith(part, "*"),
           !.names = @ \cup ({import_name(part) : part \in named} \ {""})]

parse_destructured_names(names) ==
    LET raw == Split(names, ",")
        left(item) == IF SplitOnce(item, ":") # <<>>
                      THEN Trim(SplitOnce(item, ":")[1]) ELSE item
    IN {left(Trim(raw[i])) : i \in {j \in DOMAIN raw : Trim(raw[j]) # ""}} \ {""}

\* ImportRecord { specifier, ..Default::default() }
ImportRecord(specifier) ==
    [specifier |-> specifier, uses_default |-> FALSE, uses_namespace |-> FALSE,
     names |-> {}, side_effect_only |-> FALSE, is_reexport |-> FALSE]

parse_import_clause(clause, record) ==
    LET cleaned0 == Trim(clause)
        cleaned == Trim(IF StartsWith(cleaned0, "type ") THEN From(cleaned0, 6) ELSE cleaned0)
        r1 == [record EXCEPT !.uses_namespace = @ \/ Contains(cleaned, "* as")]
        parts == SplitOnce(cleaned, ",")
    IN IF StartsWith(cleaned, "{")
       THEN [r1 EXCEPT !.names = @ \cup parse_export_names(cleaned)]
       ELSE IF parts # <<>>
       THEN [r1 EXCEPT
                !.uses_default = @ \/ Trim(parts[1]) # "",
                !.uses_namespace = @ \/ Contains(parts[2], "*"),
                !.names = @ \cup (IF Contains(parts[2], "{")
                                  THEN parse_export_names(parts[2]) ELSE {})]
       ELSE IF Contains(cleaned, "{")
       THEN [r1 EXCEPT !.names = @ \cup parse_export_names(cleaned)]
       ELSE IF cleaned # "" THEN [r1 EXCEPT !.uses_default = TRUE]
       ELSE r1

\* The statements of the given kinds, in source order.
OfKinds(stmts, kinds) == SelectSeq(stmts, LAMBDA st : st.kind \in kinds)

\* n line feeds
RECURSIVE NewLines(_)
NewLines(n) == IF n = 0 THEN "" ELSE "\n" \o NewLines(n - 1)

\* one line feed for each line feed of the text
LineFeeds(text) == NewLines(Cardinality({k \in 1..Len(text) : Char(text, k) = "\n"}))

\* The index of the "*/" that ends the block comment whose body starts at
\* index k, 0 if there is none.
BlockEnd(s, k) ==
    IF \E e \in k..(Len(s) - 1) : SubSeq(s, e, e + 1) = "*/"
    THEN CHOOSE e \in k..(Len(s) - 1) :
             /\ SubSeq(s, e, e + 1) = "*/"
             /\ \A d \in k..(e - 1) : SubSeq(s, d, d + 1) # "*/"
    ELSE 0

\* strip_comments from index i on; quote is the quote of the string literal
\* index i lies in, "" outside of one.  The characters the loop only copies
\* are taken in one piece, up to the next quote, backslash or slash.  A comment
\* that has no end stops before the last character of the text, which is
\* then read as code.
RECURSIVE strip_from(_, _, _)
strip_line_comment(s, body) ==
    IF FirstOf(s, body, {"\n"}) > Len(s) THEN ""
    ELSE "\n" \o strip_from(s, FirstOf(s, body, {"\n"}) + 1, "")

strip_block_comment(s, body, end) ==
    IF end # 0 THEN LineFeeds(SubSeq(s, body, end - 1)) \o strip_from(s, end + 2, "")
    ELSE LineFeeds(SubSeq(s, body, Len(s) - 1))
         \o strip_from(s, IF body > Len(s) THEN body ELSE Len(s), "")

\* index j holds the backslash or the quote of a string literal
strip_in_string(s, j, quote) ==
    IF Char(s, j) = "\\" /\ j + 1 <= Len(s)
    THEN SubSeq(s, j, j + 1) \o strip_from(s, j + 2, quote)
    ELSE Char(s, j) \o strip_from(s, j + 1, IF Char(s, j) = quote THEN "" ELSE quote)

\* index j holds a quote or a slash outside of a string literal
strip_in_code(s, j) ==
    IF Char(s, j) # "/" THEN Char(s, j) \o strip_from(s, j + 1, Char(s, j))
    ELSE IF j + 1 <= Len(s) /\ Char(s, j + 1) = "/" THEN strip_line_comment(s, j + 2)
    ELSE IF j + 1 <= Len(s) /\ Char(s, j + 1) = "*"
    THEN strip_block_comment(s, j + 2, BlockEnd(s, j + 2))
    ELSE "/" \o strip_from(s, j + 1, "")

strip_copied(s, i, j, quote) ==
    SubSeq(s, i, j - 1)
    \o (IF j > Len(s) THEN ""
        ELSE IF quote # "" THEN strip_in_string(s, j, quote)
        ELSE strip_in_code(s, j))

strip_from(s, i, quote) ==
    strip_copied(s, i,
                 FirstOf(s, i, IF quote # "" THEN {"\\", quote}
                         ELSE {"'", "\"", Backquote, "/"}),
                 quote)

strip_comments(source) == strip_from(source, 1, "")

\* lib.rs: the patterns of parse_module.
IMPORT_FROM_RE ==
    RegexNew("(?m)^\\s*import\\s+([^;\\n]+?)\\s+from\\s+['\\\"]([^'\\\"]+)['\\\"]")

IMPORT_SIDE_EFFECT_RE == RegexNew("(?m)^\\s*import\\s+['\\\"]([^'\\\"]+)['\\\"]")

EXPORT_DECL_RE ==
    RegexNew("(?m)^\\s*export\\s+(?:const|let|var|function|class|interface|type|enum)\\s+([A-Za-z_$][\\w$]*)")

EXPORT_LIST_RE ==
    RegexNew("(?m)^\\s*export\\s*\\{\\s*([^}]+)\\s*\\}(?:\\s*from\\s*['\\\"]([^'\\\"]+)['\\\"])?")

EXPORT_DEFAULT_RE == RegexNew("(?m)^\\s*export\\s+default\\b")

EXPORT_ALL_RE == RegexNew("(?m)^\\s*export\\s+\\*\\s+from\\s+['\\\"]([^'\\\"]+)['\\\"]")

REQUIRE_RE == RegexNew("(?m)(?:^|\\s|=)require\\(\\s*['\\\"]([^'\\\"]+)['\\\"]\\s*\\)")

DESTRUCTURE_REQUIRE_RE ==
    RegexNew("(?m)\\{\\s*([^}]+)\\s*\\}\\s*=\\s*require\\(\\s*['\\\"]([^'\\\"]+)['\\\"]\\s*\\)")

DYN_IMPORT_RE == RegexNew("import\\(\\s*['\\\"]([^'\\\"]+)['\\\"]\\s*\\)")

\* caps.get(n).map(|m| m.as_str()).unwrap_or_default()
CaptureText(re, s, caps, n) == UnwrapOr(CaptureGet(re, s, caps, n), "")

\* The import records of one loop of parse_module, found being what
\* captures_iter yields on the source.
ImportFromRecords(source, found) ==
    [n \in DOMAIN found |->
        parse_import_clause(CaptureText(IMPORT_FROM_RE, source, found[n], 1),
                            ImportRecord(CaptureText(IMPORT_FROM_RE, source, found[n], 2)))]

SideEffectRecords(source, found) ==
    [n \in DOMAIN found |->
        [ImportRecord(CaptureText(IMPORT_SIDE_EFFECT_RE, source, found[n], 1))
            EXCEPT !.side_effect_only = TRUE]]

RequireRecords(source, found) ==
    [n \in DOMAIN found |->
        [ImportRecord(CaptureText(REQUIRE_RE, source, found[n], 1))
            EXCEPT !.uses_namespace = TRUE]]

DestructureRecords(source, found) ==
    [n \in DOMAIN found |->
        [ImportRecord(CaptureText(DESTRUCTURE_REQUIRE_RE, source, found[n], 2))
            EXCEPT !.names =
                parse_destructured_names(
                    CaptureText(DESTRUCTURE_REQUIRE_RE, source, found[n], 1))]]

DynImportRecords(source, found) ==
    [n \in DOMAIN found |->
        [ImportRecord(CaptureText(DYN_IMPORT_RE, source, found[n], 1))
            EXCEPT !.uses_namespace = TRUE]]

\* if let Some(specifier) = src
IsReexportList(source, caps) == CaptureGet(EXPORT_LIST_RE, source, caps, 2) # None

ReexportRecords(source, found) ==
    [n \in DOMAIN found |->
        parse_export_list_as_import(
            CaptureText(EXPORT_LIST_RE, source, found[n], 1),
            [ImportRecord(CaptureText(EXPORT_LIST_RE, source, found[n], 2))
                EXCEPT !.is_reexport = TRUE])]

ExportAllRecords(source, found) ==
    [n \in DOMAIN found |->
        [ImportRecord(CaptureText(EXPORT_ALL_RE, source, found[n], 1))
            EXCEPT !.uses_namespace = TRUE, !.is_reexport = TRUE]]

ExportDeclNames(source, found) ==
    {CaptureText(EXPORT_DECL_RE, source, found[n], 1) : n \in DOMAIN found} \ {""}

ExportListNames(source, found) ==
    UNION {parse_export_names(CaptureText(EXPORT_LIST_RE, source, found[n], 1)) :
               n \in DOMAIN found}

\* parse_module from the comment-stripped text on: the import records in the
\* order of the loops, the exports and the two flags.  found holds what
\* captures_iter yields for each pattern.
parse_source(source, found) ==
    [imports |->
        ImportFromRecords(source, found.import_from)
        \o SideEffectRecords(source, found.import_side_effect)
        \o RequireRecords(source, found.require)
        \o DestructureRecords(source, found.destructure_require)
        \o DynImportRecords(source, found.dyn_import)
        \o ReexportRecords(
               source,
               SelectSeq(found.export_list, LAMBDA caps : IsReexportList(source, caps)))
        \o ExportAllRecords(source, found.export_all),
     exports |->
        ExportDeclNames(source, found.export_decl)
        \cup ExportListNames(
                 source,
                 SelectSeq(found.export_list, LAMBDA caps : ~IsReexportList(source, caps))),
     has_default_export |-> is_match(EXPORT_DEFAULT_RE, source),
     has_export_all |-> found.export_all # <<>>]

parse_stripped(source) ==
    parse_source(source,
                 [import_from |-> captures_iter(IMPORT_FROM_RE, source),
                  import_side_effect |-> captures_iter(IMPORT_SIDE_EFFECT_RE, source),
                  require |-> captures_iter(REQUIRE_RE, source),
                  destructure_require |-> captures_iter(DESTRUCTURE_REQUIRE_RE, source),
                  dyn_import |-> captures_iter(DYN_IMPORT_RE, source),
                  export_decl |-> captures_iter(EXPORT_DECL_RE, source),
                  export_list |-> captures_iter(EXPORT_LIST_RE, source),
                  export_all |-> captures_iter(EXPORT_ALL_RE, source)])

\* parse_module of a file with the given text
parse_module(text) == parse_stripped(strip_comments(text))

(***************************************************************************)
(* tokens.rs and the regexes it and scanner.rs apply to the raw text.       *)
(***************************************************************************)
IdentStartChars == UpperCase \o LowerCase \o "_$"

IdentChars == IdentStartChars \o "0123456789"

\* The index after the run of identifier characters that starts at i.
RECURSIVE IdentEnd(_, _)
IdentEnd(s, i) ==
    IF i <= Len(s) /\ Contains(IdentChars, Char(s, i)) THEN IdentEnd(s, i + 1) ELSE i

\* IDENT_TOKEN_RE.find_iter from index i: the set of the matches.  A match
\* starts at the next character an identifier can start with.
RECURSIVE IdentTokensFrom(_, _)
IdentTokenAt(s, i, end) == {SubSeq(s, i, end - 1)} \cup IdentTokensFrom(s, end)

IdentTokensNext(s, i) == IF i > Len(s) THEN {} ELSE IdentTokenAt(s, i, IdentEnd(s, i))

IdentTokensFrom(s, i) ==
    IdentTokensNext(s, FirstOf(s, i, {Char(IdentStartChars, k) : k \in 1..Len(IdentStartChars)}))

\* The index of the quote that closes a literal whose body starts at j, 0 if
\* there is none; a backslash escapes the character after it.  Index k holds
\* the first backslash or quote from j on.
RECURSIVE ClosingQuote(_, _, _)
ClosingQuoteAt(s, k, quote) ==
    IF k > Len(s) THEN 0
    ELSE IF Char(s, k) = quote THEN k
    ELSE IF k + 1 > Len(s) THEN 0
    ELSE ClosingQuote(s, k + 2, quote)

ClosingQuote(s, j, quote) == ClosingQuoteAt(s, FirstOf(s, j, {"\\", quote}), quote)

\* STRING_LITERAL_RE.captures_iter from index i: the bodies of the literals
\* in single quotes, double quotes and backquotes.  A match starts at the next
\* quote that has a closing quote.
RECURSIVE StringLiteralsFrom(_, _)
StringLiteralAt(s, i, close) ==
    IF close = 0 THEN StringLiteralsFrom(s, i + 1)
    ELSE {SubSeq(s, i + 1, close - 1)} \cup StringLiteralsFrom(s, close + 1)

StringLiteralsNext(s, i) ==
    IF i > Len(s) THEN {} ELSE StringLiteralAt(s, i, ClosingQuote(s, i + 1, Char(s, i)))

StringLiteralsFrom(s, i) == StringLiteralsNext(s, FirstOf(s, i, {"'", "\"", Backquote}))


(***************************************************************************)
(* serde_json::Value: a record [t, s, o, a] with t one of "string" (s the    *)
(* string), "object" (o a function from keys to values), "array" (a the     *)
(* sequence of items) and "other" (numbers, booleans, null; s the text);    *)
(* the fields a kind does not use are empty.  [t |-> "invalid"] stands for  *)
(* the Err of a text that does not parse.                                   *)
(***************************************************************************)
JStr(x) == [t |-> "string", s |-> x, o |-> <<>>, a |-> <<>>]

JObj(f) == [t |-> "object", s |-> "", o |-> f, a |-> <<>>]

JArr(xs) == [t |-> "array", s |-> "", o |-> <<>>, a |-> xs]

JOther(text) == [t |-> "other", s |-> text, o |-> <<>>, a |-> <<>>]

JInvalid == [t |-> "invalid", s |-> "", o |-> <<>>, a |-> <<>>]

\* Value::get(key)
JGet(value, key) ==
    IF value.t = "object" /\ key \in DOMAIN value.o THEN Some(value.o[key]) ELSE None

\* value.get(key).and_then(|v| v.as_str())
JGetStr(value, key) ==
    IF JGet(value, key) # None /\ JGet(value, key)[1].t = "string"
    THEN Some(JGet(value, key)[1].s) ELSE None

\* The keys of value.get(key).and_then(|v| v.as_object()), in the order
\* serde_json's map iterates them (sorted).
JObjectKeys(value, key) ==
    IF JGet(value, key) # None /\ JGet(value, key)[1].t = "object"
    THEN SortStrings(DOMAIN JGet(value, key)[1].o) ELSE <<>>

(***************************************************************************)
(* serde_json::from_str::<Value>: the text is read from left to right, one  *)
(* step of the reader being [ok, value, pos], pos the index after what was  *)
(* read.  A number is read for its extent only.  Two things have no outcome *)
(* here: an escape that names a character outside the alphabet, and a       *)
(* number so long that it may lie out of the range of f64.                  *)
(***************************************************************************)
JRead(value, pos) == [ok |-> TRUE, value |-> value, pos |-> pos]

JFailed == [ok |-> FALSE, value |-> JInvalid, pos |-> 0]

\* parse_whitespace: the index of the first character from i on that is no
\* space, line feed, tab or carriage return
RECURSIVE SkipWhitespace(_, _)
SkipWhitespace(text, i) ==
    IF At(text, i) \in {" ", "\n", "\t", "\r"} THEN SkipWhitespace(text, i + 1) ELSE i

\* the characters a string may not hold unescaped: those below U+0020
ControlChars == {c \in DOMAIN CodePoints : CodePoints[c] < 32}

RECURSIVE JsonStringFrom(_, _, _)
\* the four hexadecimal digits of a \u escape, from index j on: their value,
\* -1 when they are none
HexEscapeValue(text, j) ==
    IF j + 3 > Len(text) \/ \E n \in j..(j + 3) : ~IsHexDigit(At(text, n)) THEN -1
    ELSE HexValue(SubSeq(text, j, j + 3))

\* A \u escape of the value code, its backslash at index j: a low surrogate
\* is an error, a high surrogate needs a low one in an escape right after
\* it, and the two name a character above U+FFFF.
JsonUnicodeEscape(text, j, code, acc) ==
    IF code < 0 \/ (56320 <= code /\ code <= 57343) THEN JFailed
    ELSE IF 55296 <= code /\ code <= 56319
    THEN (IF /\ StartsWith(From(text, j + 6), "\\u")
             /\ 56320 <= HexEscapeValue(text, j + 8)
             /\ HexEscapeValue(text, j + 8) <= 57343
          THEN Unmodelled("a character outside the alphabet")
          ELSE JFailed)
    ELSE JsonStringFrom(text, j + 6, acc \o FromCode(code))

\* parse_escape, the backslash at index j
JsonEscape(text, j, e, acc) ==
    CASE e \in {"\"", "\\", "/"} -> JsonStringFrom(text, j + 2, acc \o e)
      [] e = "b" -> JsonStringFrom(text, j + 2, acc \o FromCode(8))
      [] e = "f" -> JsonStringFrom(text, j + 2, acc \o "\f")
      [] e = "n" -> JsonStringFrom(text, j + 2, acc \o "\n")
      [] e = "r" -> JsonStringFrom(text, j + 2, acc \o "\r")
      [] e = "t" -> JsonStringFrom(text, j + 2, acc \o "\t")
      [] e = "u" -> JsonUnicodeEscape(text, j, HexEscapeValue(text, j + 2), acc)
      [] OTHER -> JFailed

\* the string goes on at index i; index j holds the first quote, backslash
\* or control character from there on
JsonStringTo(text, i, j, acc) ==
    IF At(text, j) = "\"" THEN JRead(JStr(acc \o SubSeq(text, i, j - 1)), j + 1)
    ELSE IF At(text, j) = "\\"
    THEN JsonEscape(text, j, At(text, j + 1), acc \o SubSeq(text, i, j - 1))
    ELSE JFailed

\* parse_str from the index i after the opening quote, acc the characters
\* read so far
JsonStringFrom(text, i, acc) ==
    JsonStringTo(text, i, FirstOf(text, i, {"\"", "\\"} \cup ControlChars), acc)

\* The number may be out of range when it is written with more than 200
\* digits before the point or more than two digits of exponent.
JsonNumberRead(text, i, int_start, int_end, exp_start, end) ==
    IF \/ int_end - int_start > 200
       \/ Len(TrimStartMatches(SubSeq(text, exp_start, end - 1), "0")) > 2
    THEN Unmodelled("a number that may be out of range")
    ELSE JRead(JOther(SubSeq(text, i, end - 1)), end)

\* parse_exponent: "e" or "E", a sign or none, and one digit at least
JsonExponent(text, i, int_start, int_end, at) ==
    IF At(text, at) \notin {"e", "E"} THEN JsonNumberRead(text, i, int_start, int_end, at, at)
    ELSE IF DigitsEnd(text, IF At(text, at + 1) \in {"+", "-"} THEN at + 2 ELSE at + 1)
            = (IF At(text, at + 1) \in {"+", "-"} THEN at + 2 ELSE at + 1)
    THEN JFailed
    ELSE JsonNumberRead(text, i, int_start, int_end,
                        IF At(text, at + 1) \in {"+", "-"} THEN at + 2 ELSE at + 1,
                        DigitsEnd(text, IF At(text, at + 1) \in {"+", "-"}
                                        THEN at + 2 ELSE at + 1))

\* parse_decimal: a point and one digit at least
JsonFraction(text, i, int_start, int_end) ==
    IF At(text, int_end) # "." THEN JsonExponent(text, i, int_start, int_end, int_end)
    ELSE IF DigitsEnd(text, int_end + 1) = int_end + 1 THEN JFailed
    ELSE JsonExponent(text, i, int_start, int_end, DigitsEnd(text, int_end + 1))

\* parse_integer from index start, after the sign: "0" alone or a digit from
\* 1 to 9 and more digits
JsonInteger(text, i, start) ==
    IF At(text, start) = "0"
    THEN (IF DigitsEnd(text, start + 1) > start + 1 THEN JFailed
          ELSE JsonFraction(text, i, start, start + 1))
    ELSE IF DigitsEnd(text, start) = start THEN JFailed
    ELSE JsonFraction(text, i, start, DigitsEnd(text, start))

\* parse_ident
JsonIdent(text, i, ident) ==
    IF StartsWith(From(text, i), ident)
    THEN JRead(JOther(ident), i + Len(ident)) ELSE JFailed

RECURSIVE JsonValueAt(_, _, _)
RECURSIVE JsonElements(_, _, _, _, _)
RECURSIVE JsonMembers(_, _, _, _, _)
JsonElementRead(text, element, depth, acc) ==
    IF ~element.ok THEN JFailed
    ELSE JsonElements(text, SkipWhitespace(text, element.pos), depth, FALSE,
                      Append(acc, element.value))

\* SeqAccess::next_element_seed with index i at the next character that is no
\* whitespace: the items so far are acc, and first tells that none was read
JsonElements(text, i, depth, first, acc) ==
    IF At(text, i) = "]" THEN JRead(JArr(acc), i + 1)
    ELSE IF first THEN JsonElementRead(text, JsonValueAt(text, i, depth), depth, acc)
    ELSE IF At(text, i) # "," \/ At(text, SkipWhitespace(text, i + 1)) = "]" THEN JFailed
    ELSE JsonElementRead(text, JsonValueAt(text, SkipWhitespace(text, i + 1), depth), depth,
                         acc)

\* the value of a member; of two members with one key the later stays
JsonMemberValue(text, key, member, depth, acc) ==
    IF ~member.ok THEN JFailed
    ELSE JsonMembers(text, SkipWhitespace(text, member.pos), depth, FALSE,
                     (key :> member.value) @@ acc)

\* parse_object_colon and the value after it
JsonMemberKey(text, key, colon, depth, acc) ==
    IF ~key.ok \/ At(text, colon) # ":" THEN JFailed
    ELSE JsonMemberValue(text, key.value.s,
                         JsonValueAt(text, SkipWhitespace(text, colon + 1), depth), depth, acc)

\* a member from index i on, which must hold the quote of its key
JsonMember(text, i, key, depth, acc) ==
    IF At(text, i) # "\"" THEN JFailed
    ELSE JsonMemberKey(text, key, IF key.ok THEN SkipWhitespace(text, key.pos) ELSE 0, depth,
                       acc)

\* MapAccess::next_key_seed with index i at the next character that is no
\* whitespace
JsonMembers(text, i, depth, first, acc) ==
    IF At(text, i) = "}" THEN JRead(JObj(acc), i + 1)
    ELSE IF first THEN JsonMember(text, i, JsonStringFrom(text, i + 1, ""), depth, acc)
    ELSE IF At(text, i) # "," THEN JFailed
    ELSE JsonMember(text, SkipWhitespace(text, i + 1),
                    JsonStringFrom(text, SkipWhitespace(text, i + 1) + 1, ""), depth, acc)

\* deserialize_any at index i, which holds no whitespace: depth is the
\* number of arrays and objects that may still open within one another
JsonValueAt(text, i, depth) ==
    CASE At(text, i) = "n" -> JsonIdent(text, i, "null")
      [] At(text, i) = "t" -> JsonIdent(text, i, "true")
      [] At(text, i) = "f" -> JsonIdent(text, i, "false")
      [] At(text, i) = "-" -> JsonInteger(text, i, i + 1)
      [] At(text, i) # "" /\ Contains(Digits, At(text, i)) -> JsonInteger(text, i, i)
      [] At(text, i) = "\"" -> JsonStringFrom(text, i + 1, "")
      [] At(text, i) = "[" ->
             IF depth = 1 THEN JFailed
             ELSE JsonElements(text, SkipWhitespace(text, i + 1), depth - 1, TRUE, <<>>)
      [] At(text, i) = "{" ->
             IF depth = 1 THEN JFailed
             ELSE JsonMembers(text, SkipWhitespace(text, i + 1), depth - 1, TRUE, <<>>)
      [] OTHER -> JFailed

\* Deserializer::end: nothing but whitespace may follow the value
JsonEnd(text, read) ==
    IF read.ok /\ SkipWhitespace(text, read.pos) = Len(text) + 1 THEN read.value
    ELSE JInvalid

\* serde_json::from_str, with the recursion limit of 128
from_str(text) == JsonEnd(text, JsonValueAt(text, SkipWhitespace(text, 1), 128))

(***************************************************************************)
(* The text of a JSON file that holds a value, as the projects of the model *)
(* write it: members and items after ", ", a member's value after ": ".     *)
(***************************************************************************)
\* A character of a string as it stands between the quotes: the quote, the
\* backslash and the control characters are escaped.
JsonEscaped(c) ==
    CASE c = "\"" -> "\\\""
      [] c = "\\" -> "\\\\"
      [] c = "\t" -> "\\t"
      [] c = "\n" -> "\\n"
      [] c = "\f" -> "\\f"
      [] c = "\r" -> "\\r"
      [] c = FromCode(11) -> "\\u000b"
      [] OTHER -> c

RECURSIVE JsonLiteral(_)
JsonLiteral(s) == IF s = "" THEN "" ELSE JsonEscaped(Char(s, 1)) \o JsonLiteral(Tail(s))

JsonQuoted(s) == "\"" \o JsonLiteral(s) \o "\""

RECURSIVE JsonText(_)
JsonMemberText(key, value) == JsonQuoted(key) \o ": " \o JsonText(value)

JsonText(value) ==
    CASE value.t = "string" -> JsonQuoted(value.s)
      [] value.t = "object" ->
             "{" \o JoinStr([n \in DOMAIN SortStrings(DOMAIN value.o) |->
                                JsonMemberText(SortStrings(DOMAIN value.o)[n],
                                               value.o[SortStrings(DOMAIN value.o)[n]])],
                            ", ") \o "}"
      [] value.t = "array" ->
             "[" \o JoinStr([n \in DOMAIN value.a |-> JsonText(value.a[n])], ", ") \o "]"
      [] OTHER -> value.s

(***************************************************************************)
(* lib.rs: the configuration reader and build_resolver.                     *)
(***************************************************************************)
TRAILING_COMMA_RE == RegexNew(",\\s*([}\\]])")

\* Regex::replace_all(text, "$1"): each match gives way to its first group.
\* found holds the matches that are left, from the index on the text that
\* stays to be copied.
RECURSIVE ReplacedByGroup(_, _, _, _)
ReplacedByGroup(re, text, found, from) ==
    IF found = <<>> THEN From(text, from)
    ELSE SubSeq(text, from, Head(found).start - 1)
         \o CaptureText(re, text, Head(found), 1)
         \o ReplacedByGroup(re, text, Tail(found), Head(found).end)

replace_all(re, text) == ReplacedByGroup(re, text, captures_iter(re, text), 1)

\* the loop of sanitize_jsonc
RECURSIVE without_trailing_commas(_)
trailing_commas_next(current, next) ==
    IF next = current THEN next ELSE without_trailing_commas(next)

without_trailing_commas(current) ==
    trailing_commas_next(current, replace_all(TRAILING_COMMA_RE, current))

sanitize_jsonc(input) == without_trailing_commas(strip_comments(input))

\* let raw = fs::read_to_string(path).unwrap_or_default();
\* serde_json::from_str::<Value>(&sanitize_jsonc(&raw)), [t |-> "invalid"] for
\* its Err
ReadConfig(path) == from_str(sanitize_jsonc(UnwrapOr(read_to_string(path), "")))

\* if candidate.is_dir() { candidate = candidate.join("tsconfig.json") }
reference_candidate(joined) ==
    IF IsDir(joined) THEN Join(joined, "tsconfig.json") ELSE joined

existing_reference(candidate) ==
    IF Exists(candidate) THEN Some(candidate)
    ELSE IF Extension(candidate) = None /\ Exists(WithExtension(candidate, "json"))
    THEN Some(WithExtension(candidate, "json"))
    ELSE None

resolve_tsconfig_reference_path(base_dir, raw_ref) ==
    IF Trim(raw_ref) = "" THEN None
    ELSE existing_reference(reference_candidate(Join(base_dir, raw_ref)))

\* The `extends` reference and the `references[].path` references of a
\* parsed configuration, in the order they are followed.
ConfigLinks(value) ==
    LET refs == IF JGet(value, "references") # None /\ JGet(value, "references")[1].t = "array"
                THEN JGet(value, "references")[1].a ELSE <<>>
        with_path == SelectSeq(refs, LAMBDA item : JGetStr(item, "path") # None)
    IN (IF JGetStr(value, "extends") # None THEN <<JGetStr(value, "extends")[1]>> ELSE <<>>)
       \o [i \in DOMAIN with_path |-> JGetStr(with_path[i], "path")[1]]

\* discover_related_tsconfigs: the visiting set after the call (every path
\* inserted into visiting is inserted into out as well).
RECURSIVE discover_related_tsconfigs(_, _)
RECURSIVE follow_config_links(_, _, _)
\* if let Some(path) = resolve_tsconfig_reference_path(..) { discover_related_tsconfigs(&path, ..) }
visit_reference(path, visiting) ==
    IF path = None THEN visiting ELSE discover_related_tsconfigs(path[1], visiting)

follow_config_links(config_dir, links, visiting) ==
    IF links = <<>> THEN visiting
    ELSE follow_config_links(
             config_dir, Tail(links),
             visit_reference(resolve_tsconfig_reference_path(config_dir, Head(links)),
                             visiting))

\* discover_related_tsconfigs from the canonical path on.
\* the configuration is read: a file that does not parse has no links
discover_links(canonical, value, visiting) ==
    IF value.t = "invalid" THEN visiting \cup {canonical}
    ELSE follow_config_links(UnwrapOr(Parent(canonical), "."), ConfigLinks(value),
                             visiting \cup {canonical})

discover_canonical(canonical, visiting) ==
    IF ~Exists(canonical) \/ canonical \in visiting THEN visiting
    ELSE discover_links(canonical, ReadConfig(canonical), visiting)

discover_related_tsconfigs(config_path, visiting) ==
    discover_canonical(UnwrapOr(Canonicalize(config_path), config_path), visiting)


SeedConfigNames ==
    <<"tsconfig.json", "jsconfig.json", "tsconfig.app.json", "tsconfig.base.json">>

\* The BTreeSet config_paths of build_resolver: what the seeds that exist
\* reach, each seed with a visiting set of its own.
ConfigPaths(root) ==
    UNION {IF Exists(Join(root, SeedConfigNames[i]))
           THEN discover_related_tsconfigs(Join(root, SeedConfigNames[i]), {})
           ELSE {} : i \in DOMAIN SeedConfigNames}

\* The base directory apply_compiler_options_from_config appends for a config.
\* let config_dir = config_path.parent().unwrap_or(root)
ConfigDir(config_path, root) ==
    IF Parent(config_path) = None THEN root ELSE Parent(config_path)[1]

\* value.get("compilerOptions").and_then(|v| v.as_object()), the empty
\* object standing for None
CompilerOptions(value) ==
    IF JGet(value, "compilerOptions") # None /\ JGet(value, "compilerOptions")[1].t = "object"
    THEN JGet(value, "compilerOptions")[1] ELSE JObj(<<>>)

BaseDirsOf(value, config_dir, compiler) ==
    IF value.t = "invalid" \/ JGetStr(compiler, "baseUrl") = None THEN <<>>
    ELSE <<Join(config_dir, JGetStr(compiler, "baseUrl")[1])>>

BaseDirsRead(value, config_dir) == BaseDirsOf(value, config_dir, CompilerOptions(value))

ConfigBaseDirs(config_path, root) ==
    BaseDirsRead(ReadConfig(config_path), ConfigDir(config_path, root))

\* The alias rules apply_compiler_options_from_config appends for a config:
\* for each key of `paths` that maps to an array, one rule per string target.
AliasRulesOf(value, config_dir, compiler) ==
    LET keys == JObjectKeys(compiler, "paths")
        paths == JGet(compiler, "paths")[1].o
        targets(key) == IF paths[key].t = "array"
                        THEN SelectSeq(paths[key].a, LAMBDA tv : tv.t = "string") ELSE <<>>
        rules(key) == [i \in DOMAIN targets(key) |->
                          [key |-> key, target |-> targets(key)[i].s, base_dir |-> config_dir]]
    IN IF value.t = "invalid" THEN <<>>
       ELSE Flatten([i \in DOMAIN keys |-> rules(keys[i])])

AliasRulesRead(value, config_dir) == AliasRulesOf(value, config_dir, CompilerOptions(value))

ConfigAliasRules(config_path, root) ==
    AliasRulesRead(ReadConfig(config_path), ConfigDir(config_path, root))

\* dedup_paths: the canonical forms, the first occurrence of each kept.  seen
\* is a HashSet<PathBuf>, which tells paths apart by their components: a
\* path that does not exist is kept as written, and two spellings of it that
\* differ in "." components or separators are the same element.
RECURSIVE dedup_paths_from(_, _)
\* if seen.insert(canonical.clone()) { out.push(canonical) }
keep_first(canonical, rest, seen) ==
    IF PathComponents(canonical) \in seen THEN dedup_paths_from(rest, seen)
    ELSE <<canonical>> \o dedup_paths_from(rest, seen \cup {PathComponents(canonical)})

dedup_paths_from(paths, seen) ==
    IF paths = <<>> THEN <<>>
    ELSE keep_first(UnwrapOr(Canonicalize(Head(paths)), Head(paths)), Tail(paths), seen)

dedup_paths(paths) == dedup_paths_from(paths, {})

\* build_resolver once config_paths is known.
resolver_of(root, files, config_paths) ==
    [files |-> files,
     root |-> root,
     base_dirs |->
         dedup_paths(<<root, Join(root, "src")>>
                     \o Flatten([i \in DOMAIN config_paths |->
                                    ConfigBaseDirs(config_paths[i], root)])),
     alias_rules |->
         Flatten([i \in DOMAIN config_paths |-> ConfigAliasRules(config_paths[i], root)])]

build_resolver(root, files) == resolver_of(root, files, SortPaths(ConfigPaths(root)))

(***************************************************************************)
(* scanner.rs: the walk of the tree.                                        *)
(***************************************************************************)
\* The files WalkDir yields below root: filter_entry prunes every entry,
\* the root included, whose name is an ignored directory name.
WalkedFiles(root) ==
    {f \in DiskFiles :
        /\ StartsWith(f, root \o "/")
        /\ ~is_ignored_dir(root)
        /\ \A c \in Range(PathComponents(From(f, Len(root) + 1))) : c \notin IgnoredDirs}

collect_source_files(root) == {f \in WalkedFiles(root) : has_source_extension(f)}

collect_asset_files(root) == {f \in WalkedFiles(root) : has_asset_extension(f)}

normalize_asset_root(value) ==
    TrimMatches(TrimStartMatches(Replace(Trim(value), "\\", "/"), "./"), "/")

filter_assets_by_roots(root, assets, asset_roots) ==
    LET normalized == {normalize_asset_root(asset_roots[i]) : i \in DOMAIN asset_roots}
        roots == normalized \ {""}
    IN IF asset_roots = <<>> \/ roots = {} THEN assets
       ELSE {asset \in assets :
                \E prefix \in roots :
                    \/ Replace(relative_display(root, asset), "\\", "/") = prefix
                    \/ StartsWith(Replace(relative_display(root, asset), "\\", "/"),
                                  prefix \o "/")}

(***************************************************************************)
(* entries.rs                                                               *)
(***************************************************************************)
\* collect_strings: every string leaf of a JSON value.
RECURSIVE collect_strings(_)
collect_strings(value) ==
    CASE value.t = "string" -> {value.s}
      [] value.t = "object" -> UNION {collect_strings(value.o[k]) : k \in DOMAIN value.o}
      [] value.t = "array" -> UNION {collect_strings(value.a[i]) : i \in DOMAIN value.a}
      [] OTHER -> {}

\* A Result: Ok(v), or Err.
Ok(v) == [ok |-> TRUE, v |-> v]

Err == [ok |-> FALSE, v |-> <<>>]

\* let raw = fs::read_to_string(package_json)?;
\* let value: serde_json::Value = serde_json::from_str(&raw)?;
\* with [t |-> "invalid"] for the Err of either
ManifestRead(raw) == IF raw = None THEN JInvalid ELSE from_str(raw[1])

ManifestValue == ManifestRead(read_to_string(ManifestPath))

\* The strings package_json_entry_candidates pushes for a parsed manifest.
EntryCandidatesOf(value, bin) ==
    {JGetStr(value, key)[1] :
        key \in {k \in {"main", "module", "types", "browser"} : JGetStr(value, k) # None}}
    \cup (IF bin = None THEN {}
          ELSE IF bin[1].t = "string" THEN {bin[1].s}
          ELSE IF bin[1].t = "object"
          THEN {bin[1].o[k].s : k \in {j \in DOMAIN bin[1].o : bin[1].o[j].t = "string"}}
          ELSE {})
    \cup (IF JGet(value, "exports") = None THEN {}
          ELSE collect_strings(JGet(value, "exports")[1]))

EntryCandidatesRead(value) ==
    IF value.t = "invalid" THEN Err ELSE Ok(EntryCandidatesOf(value, JGet(value, "bin")))

\* package_json_entry_candidates: the candidate strings (the order of the
\* vector does not matter to its only caller, which inserts into a set).
package_json_entry_candidates ==
    IF ~Exists(ManifestPath) THEN Ok({}) ELSE EntryCandidatesRead(ManifestValue)

is_framework_convention_entry(root, file) ==
    LET rel_norm == Replace(relative_display(root, file), "\\", "/")
    IN IF ~StartsWith(file, root \o "/") THEN FALSE
       ELSE IF StartsWith(rel_norm, "pages/") \/ StartsWith(rel_norm, "src/pages/") THEN TRUE
       ELSE IF StartsWith(rel_norm, "app/") \/ StartsWith(rel_norm, "src/app/")
       THEN FileStem(file) # None /\ FileStem(file)[1] \in NEXT_APP_ROUTE_FILES
       ELSE FALSE

ConventionalEntries ==
    {"src/index.ts", "src/index.tsx", "src/index.js", "src/index.jsx", "src/main.ts",
     "src/main.tsx", "src/main.js", "src/main.jsx", "index.ts", "index.js"}

\* The files the given candidate strings resolve to against the root.
ResolvedCandidates(root, files, candidates) ==
    {path[1] : path \in {resolve_candidate_path(Join(root, c), files) : c \in candidates}
                           \ {None}}

\* discover_entries past the early return, with the candidates of the
\* manifest read
EntriesBeyondHints(root, files, candidates) ==
    IF ~candidates.ok THEN Err
    ELSE Ok(SortPaths(
                ResolvedCandidates(root, files, candidates.v)
                \cup ResolvedCandidates(root, files, ConventionalEntries)
                \cup {file \in files :
                         is_framework_convention_entry(root, file)
                         \/ is_test_like_file(file)}))

\* discover_entries: the BTreeSet of entries as the sorted vector returned,
\* or the Err of package_json_entry_candidates.
discover_entries(root, files, cli_entries) ==
    IF ResolvedCandidates(root, files, Range(cli_entries)) # {}
    THEN Ok(SortPaths(ResolvedCandidates(root, files, Range(cli_entries))))
    ELSE EntriesBeyondHints(root, files, package_json_entry_candidates)


(***************************************************************************)
(* lib.rs: reachability, the unresolved-import arbiter and dependencies.    *)
(* modules maps each source file to its ModuleInfo.                         *)
(***************************************************************************)
\* ImportTargets with the fault of following only plain imports: a
\* side-effect import or a re-export yields no target.
PlainImportTargets(r, file, module) ==
    [i \in DOMAIN module.imports |->
        IF module.imports[i].side_effect_only \/ module.imports[i].is_reexport THEN None
        ELSE resolve_specifier(r, file, module.imports[i].specifier)]

\* The outcomes of resolve_specifier for the imports of a module, in order.
ImportTargets(r, file, module) ==
    [i \in DOMAIN module.imports |->
        resolve_specifier(r, file, module.imports[i].specifier)]

\* The loop over the imports of the file reachable_files has just marked
\* seen: each resolved file that is not seen yet is pushed to the back.
RECURSIVE EnqueueTargets(_, _, _)
EnqueueTargets(queue, targets, seen) ==
    IF targets = <<>> THEN queue
    ELSE EnqueueTargets(
             IF Head(targets) # None /\ Head(targets)[1] \notin seen
             THEN Append(queue, Head(targets)[1]) ELSE queue,
             Tail(targets), seen)

\* The body of the loop of collect_unresolved_local_imports once
\* resolve_specifier has returned resolved, exists being what
\* local_specifier_exists comes to when it is called: "unresolved" when the
\* import is inserted, "skip" when it is not, "panic" when a call panics.
resolved_import_outcome(resolved, exists) ==
    IF resolved = Panic THEN "panic"
    ELSE IF resolved # None THEN "skip"
    ELSE IF exists = "false" THEN "unresolved"
    ELSE IF exists = "panic" THEN "panic"
    ELSE "skip"

\* The body of the loop once is_likely_local_specifier has come to likely.
likely_import_outcome(r, file, specifier, likely) ==
    IF likely = "panic" THEN "panic"
    ELSE IF likely = "false" THEN "skip"
    ELSE resolved_import_outcome(resolve_specifier(r, file, specifier),
                                 local_exists_outcome(r, file, normalize_specifier(specifier)))

\* The body of the loop of collect_unresolved_local_imports for one import.
import_outcome(r, file, specifier) ==
    likely_import_outcome(r, file, specifier,
                          likely_local_outcome(r, normalize_specifier(specifier)))

\* The (file, import index) pairs the loops of the two collectors visit.
VisitedImports(reach, mods) ==
    UNION {{<<f, j>> : j \in DOMAIN mods[f].imports} : f \in reach \cap DOMAIN mods}

\* The imports the loops of collect_unresolved_local_imports visit, each
\* with what its turn comes to.
ImportOutcomes(reach, mods, r) ==
    {[from_file |-> fi[1], specifier |-> mods[fi[1]].imports[fi[2]].specifier,
      outcome |-> import_outcome(r, fi[1], mods[fi[1]].imports[fi[2]].specifier)] :
        fi \in VisitedImports(reach, mods)}

\* collect_unresolved_local_imports panics on one of the imports.
unresolved_panics(outcomes) == \E o \in outcomes : o.outcome = "panic"

\* The UnresolvedImport records inserted.
UnresolvedOf(outcomes) ==
    {[from_file |-> o.from_file, specifier |-> o.specifier] :
        o \in {x \in outcomes : x.outcome = "unresolved"}}

\* collect_unresolved_local_imports: the set of UnresolvedImport records
\* (the code returns them as a vector in the order of the BTreeSet), or
\* Panic.
UnresolvedCollected(outcomes) ==
    IF unresolved_panics(outcomes) THEN Panic ELSE UnresolvedOf(outcomes)

collect_unresolved_local_imports(reach, mods, r) ==
    UnresolvedCollected(ImportOutcomes(reach, mods, r))

strip_file_extension(path_like) ==
    LET parts == Split(path_like, "/")
        file_name == parts[Len(parts)]
        dot_index == RFind(file_name, ".")
    IN IF dot_index # 0
       THEN SubSeq(path_like, 1, Len(path_like) - (Len(file_name) - (dot_index - 1)))
       ELSE path_like

\* specifier.split('?').next().split('#').next().replace('\\', "/")
CleanSpecifier(specifier) ==
    Replace(Split(Split(specifier, "?")[1], "#")[1], "\\", "/")

RECURSIVE StripDotSegments(_)
StripDotSegments(base) ==
    IF StartsWith(base, "./") THEN StripDotSegments(From(base, 3))
    ELSE IF StartsWith(base, "../") THEN StripDotSegments(From(base, 4))
    ELSE base

\* unresolved_specifier_suffixes: the elements of the vector returned.
unresolved_specifier_suffixes(specifier) ==
    LET base == StripDotSegments(Trim(CleanSpecifier(specifier)))
    IN ((IF StartsWith(base, "/") THEN {From(base, 2)} ELSE {})
        \cup {base}
        \cup (IF StartsWith(base, "@/") THEN {From(base, 3)} ELSE {})
        \cup (IF StartsWith(base, "~/") THEN {From(base, 3)} ELSE {})
        \cup (IF StartsWith(base, "@") /\ SplitOnce(base, "/") # <<>>
              THEN {SplitOnce(base, "/")[2]} ELSE {})
        \cup (IF StartsWith(base, "src/") THEN {From(base, 5)} ELSE {}))
       \ {""}

unresolved_leaf_name(specifier) ==
    LET parts == SelectSeq(Split(CleanSpecifier(specifier), "/"), LAMBDA v : v # "")
        leaf == parts[Len(parts)]
    IN IF parts = <<>> THEN None
       ELSE IF leaf = "." \/ leaf = ".." THEN None
       ELSE Some(strip_file_extension(leaf))

\* The test infer_potentially_used_files_from_unresolved makes for a file
\* (rel its display path, rel_no_ext that without extension) and one item.
matches_unresolved(file, rel, rel_no_ext, specifier, leaf) ==
    \/ \E suffix \in unresolved_specifier_suffixes(specifier) :
           \/ rel_no_ext = suffix
           \/ EndsWith(rel_no_ext, "/" \o suffix)
           \/ EndsWith(rel, "/" \o suffix)
           \/ EndsWith(rel_no_ext, "/" \o suffix \o "/index")
    \/ (leaf # None /\ FileStem(file) = leaf)

matches_display(file, rel, specifier) ==
    matches_unresolved(file, rel, strip_file_extension(rel), specifier,
                       unresolved_leaf_name(specifier))

infer_potentially_used_files_from_unresolved(files, unres, root) ==
    {file \in files :
        \E item \in unres :
            matches_display(file, Replace(relative_display(root, file), "\\", "/"),
                            item.specifier)}

\* The body of the loop of collect_used_packages once resolve_specifier has
\* returned resolved: the package name inserted, None, or Panic.
used_package(normalized, resolved) ==
    IF resolved = Panic THEN Panic
    ELSE IF resolved = None /\ looks_like_package_specifier(normalized)
    THEN Some(package_name(normalized))
    ELSE None

used_package_of(r, file, normalized) ==
    used_package(normalized, resolve_specifier(r, file, normalized))

\* What the turns of the loops of collect_used_packages come to.
PackageOutcomes(reach, mods, r) ==
    {used_package_of(r, fi[1], normalize_specifier(mods[fi[1]].imports[fi[2]].specifier)) :
        fi \in VisitedImports(reach, mods)}

\* collect_used_packages: the set of package names, or Panic.
UsedCollected(outcomes) ==
    IF Panic \in outcomes THEN Panic ELSE {o[1] : o \in outcomes \ {None}}

collect_used_packages(reach, mods, r) == UsedCollected(PackageOutcomes(reach, mods, r))

\* The manifest sections in the order collect_declared_dependencies reads
\* them, each with the kind it classifies as.
DepSections ==
    <<<<"dependencies", "Prod">>, <<"devDependencies", "Dev">>,
      <<"peerDependencies", "Peer">>, <<"optionalDependencies", "Optional">>>>

\* insert_dep_kinds with the fault of out.insert(name, kind): the last
\* section that declares a name decides its kind.
RECURSIVE insert_dep_kinds_last_wins(_, _, _)
insert_dep_kinds_last_wins(out, value, i) ==
    IF i > Len(DepSections) THEN out
    ELSE insert_dep_kinds_last_wins(
             [name \in DOMAIN out \cup Range(JObjectKeys(value, DepSections[i][1])) |->
                 IF name \in Range(JObjectKeys(value, DepSections[i][1]))
                 THEN DepSections[i][2] ELSE out[name]],
             value, i + 1)

\* insert_dep_kind for the sections from index i on: entry(name).or_insert(kind)
\* keeps the kind a name already has.
RECURSIVE insert_dep_kinds(_, _, _)
insert_dep_kinds(out, value, i) ==
    IF i > Len(DepSections) THEN out
    ELSE LET names == Range(JObjectKeys(value, DepSections[i][1]))
         IN insert_dep_kinds(
                [name \in DOMAIN out \cup names |->
                    IF name \in DOMAIN out THEN out[name] ELSE DepSections[i][2]],
                value, i + 1)

DeclaredRead(value) ==
    IF value.t = "invalid" THEN Err ELSE Ok(insert_dep_kinds(<<>>, value, 1))

\* collect_declared_dependencies: the map name |-> kind (empty without
\* manifest), or the Err of a manifest that cannot be read or parsed.
collect_declared_dependencies ==
    IF ~Exists(ManifestPath) THEN Ok(<<>>) ELSE DeclaredRead(ManifestValue)

\* The filter chain of run that computes unused_dependencies, sorted.
UnusedDependencies(declared_deps, used_packages, include_non_prod_deps) ==
    SortStrings({name \in DOMAIN declared_deps :
                    /\ ~StartsWith(name, "@types/")
                    /\ (include_non_prod_deps \/ declared_deps[name] = "Prod")
                    /\ name \notin used_packages})


(***************************************************************************)
(* scanner.rs: asset usage.                                                 *)
(***************************************************************************)
\* fs::read_to_string(file).unwrap_or_default()
ReadSource(file) == UnwrapOr(read_to_string(file), "")

\* Each literal body, and its normalized form when that is not empty.
with_normalized(bodies) == bodies \cup ({normalize_specifier(b) : b \in bodies} \ {""})

collect_string_literals(files) ==
    with_normalized(UNION {StringLiteralsFrom(ReadSource(f), 1) : f \in files} \ {""})

\* resolve_asset_candidate with the fault of accepting any file that exists,
\* whether or not it is one of the assets.
existing_asset_candidate(raw_candidate, assets) ==
    FirstMember(ExpansionCandidates(raw_candidate, ASSET_EXTENSIONS), DiskFiles)

resolve_asset_candidate(raw_candidate, assets) ==
    FirstMember(ExpansionCandidates(raw_candidate, ASSET_EXTENSIONS), assets)

\* The raw candidate resolve_asset_specifier hands to resolve_asset_candidate.
asset_raw_candidate(root, from_file, specifier) ==
    IF is_relative_specifier(specifier)
    THEN IF Parent(from_file) = None THEN None
         ELSE Some(Join(Parent(from_file)[1], specifier))
    ELSE IF StartsWith(specifier, "/") THEN Some(Join(root, From(specifier, 2)))
    ELSE IF StartsWith(specifier, "@/") \/ StartsWith(specifier, "~/")
    THEN Some(Join(Join(root, "src"), From(specifier, 3)))
    ELSE IF StartsWith(specifier, "src/") THEN Some(Join(root, specifier))
    ELSE None

resolve_raw_asset(raw, assets) ==
    IF raw = None THEN None ELSE resolve_asset_candidate(raw[1], assets)

resolve_asset_specifier(root, from_file, specifier, assets) ==
    resolve_raw_asset(asset_raw_candidate(root, from_file, specifier), assets)

resolve_assets_from_source_imports(root, source_files, assets) ==
    {resolved[1] :
        resolved \in
            {resolve_asset_specifier(root, fs[1], fs[2], assets) :
                fs \in {gs \in UNION {{<<f, normalize_specifier(raw)>> :
                                          raw \in StringLiteralsFrom(ReadSource(f), 1) \ {""}} :
                                         f \in source_files} :
                           gs[2] # ""}}
            \ {None}}

\* normalize_path_components: "." is skipped, ".." pops, the root is dropped.
RECURSIVE normalize_components(_, _)
normalize_components(comps, out) ==
    IF comps = <<>> THEN out
    ELSE IF Head(comps) = ".."
    THEN normalize_components(
             Tail(comps), IF out = <<>> THEN out ELSE SubSeq(out, 1, Len(out) - 1))
    ELSE normalize_components(Tail(comps), Append(out, Head(comps)))

normalize_path_components(path) == normalize_components(PathComponents(path), <<>>)

to_rel_pattern(root, path) ==
    LET root_norm == normalize_path_components(root)
        path_norm == normalize_path_components(path)
        rel == JoinStr(SubSeq(path_norm, Len(root_norm) + 1, Len(path_norm)), "/")
    IN IF Len(path_norm) < Len(root_norm)
          \/ SubSeq(path_norm, 1, Len(root_norm)) # root_norm
       THEN None
       ELSE IF rel = "" THEN None ELSE Some(rel)

resolve_glob_specifier_to_rel_pattern(root, from_file, specifier) ==
    IF is_relative_specifier(specifier)
    THEN IF Parent(from_file) = None THEN None
         ELSE to_rel_pattern(root, Join(Parent(from_file)[1], specifier))
    ELSE IF StartsWith(specifier, "/") THEN Some(Replace(From(specifier, 2), "\\", "/"))
    ELSE IF StartsWith(specifier, "@/") \/ StartsWith(specifier, "~/")
    THEN Some("src/" \o Replace(From(specifier, 3), "\\", "/"))
    ELSE IF StartsWith(specifier, "src/") THEN Some(Replace(specifier, "\\", "/"))
    ELSE None

\* Whether the regex glob_path_pattern_to_regex builds for the glob matches
\* the whole text: "**" is ".*" (any characters but line feeds), "*" is
\* "[^/]*", "?" is "[^/]" and every other character stands for itself.
RECURSIVE glob_is_match(_, _)
glob_is_match(glob, text) ==
    IF glob = "" THEN text = ""
    ELSE IF StartsWith(glob, "**")
    THEN \E k \in 0..Len(text) :
            /\ ~Contains(SubSeq(text, 1, k), "\n")
            /\ glob_is_match(From(glob, 3), From(text, k + 1))
    ELSE IF StartsWith(glob, "*")
    THEN \E k \in 0..Len(text) :
            /\ ~Contains(SubSeq(text, 1, k), "/")
            /\ glob_is_match(Tail(glob), From(text, k + 1))
    ELSE IF StartsWith(glob, "?")
    THEN text # "" /\ Char(text, 1) # "/" /\ glob_is_match(Tail(glob), Tail(text))
    ELSE text # "" /\ Char(text, 1) = Char(glob, 1) /\ glob_is_match(Tail(glob), Tail(text))

\* The literal patterns IMPORT_META_GLOB_RE captures in a file.
GlobPatterns(file) ==
    IF file \in DOMAIN disk
    THEN {st.spec : st \in Range(OfKinds(disk[file], {"glob"}))} ELSE {}

\* The assets whose display path one of the patterns matches.
assets_matching(root, assets, patterns) ==
    {asset \in assets :
        \E pattern \in patterns :
            glob_is_match(pattern, Replace(relative_display(root, asset), "\\", "/"))}

resolve_assets_from_import_meta_globs(root, source_files, assets) ==
    assets_matching(
        root, assets,
        {pattern[1] :
            pattern \in
                {resolve_glob_specifier_to_rel_pattern(root, fs[1], fs[2]) :
                    fs \in {gs \in UNION {{<<f, normalize_specifier(raw)>> :
                                              raw \in GlobPatterns(f) \ {""}} :
                                             f \in source_files} :
                               gs[2] # ""}}
                \ {None}})

\* asset_reference_candidates once rel_norm is known.
reference_candidates_of(rel_norm, file_name) ==
    LET base_refs ==
            {rel_norm, "/" \o rel_norm}
            \cup (IF StartsWith(rel_norm, "src/")
                  THEN {From(rel_norm, 5), "/" \o From(rel_norm, 5),
                        "@/" \o From(rel_norm, 5), "~/" \o From(rel_norm, 5)}
                  ELSE {})
            \cup (IF StartsWith(rel_norm, "public/")
                  THEN {From(rel_norm, 8), "/" \o From(rel_norm, 8)} ELSE {})
            \cup (IF file_name = None THEN {} ELSE {file_name[1]})
        query_suffixes == {"?react", "?url", "?raw", "?inline", "?component"}
    IN base_refs \cup {base \o suffix : base \in base_refs, suffix \in query_suffixes}

asset_reference_candidates(root, asset) ==
    reference_candidates_of(Replace(relative_display(root, asset), "\\", "/"),
                            FileName(asset))

\* The third loop of collect_used_assets: public assets and assets a string
\* literal names.
referenced_assets(root, assets, string_literals) ==
    {asset \in assets :
        \/ is_public_asset(asset)
        \/ asset_reference_candidates(root, asset) \cap string_literals # {}}

collect_used_assets(root, source_files, assets) ==
    resolve_assets_from_source_imports(root, source_files, assets)
    \cup resolve_assets_from_import_meta_globs(root, source_files, assets)
    \cup referenced_assets(root, assets, collect_string_literals(source_files))

(***************************************************************************)
(* tokens.rs                                                                *)
(***************************************************************************)
\* build_file_token_cache: file |-> the set of its identifier tokens.
build_file_token_cache(files) ==
    [file \in files |-> IdentTokensFrom(ReadSource(file), 1)]

\* count_tokens_in_scope: token |-> the number of files of the scope that
\* hold it; a token no file of the scope holds has no entry.
count_tokens_in_scope(scope, token_cache) ==
    LET in_scope == scope \cap DOMAIN token_cache
    IN [token \in UNION {token_cache[f] : f \in in_scope} |->
           Cardinality({f \in in_scope : token \in token_cache[f]})]

export_appears_in_other_reachable_files(token_file_counts, export_name, reach, file) ==
    IF export_name = "" THEN FALSE
    ELSE IF export_name \notin DOMAIN token_file_counts THEN FALSE
    ELSE IF token_file_counts[export_name] = 0 THEN FALSE
    ELSE IF token_file_counts[export_name] > 1 THEN TRUE
    ELSE Cardinality(reach) = 1 /\ file \in reach /\ token_file_counts[export_name] > 0

export_appears_in_other_project_files(token_file_counts, export_name, all_files, file) ==
    IF export_name = "" THEN FALSE
    ELSE IF export_name \notin DOMAIN token_file_counts THEN FALSE
    ELSE IF token_file_counts[export_name] = 0 THEN FALSE
    ELSE IF token_file_counts[export_name] > 1 THEN TRUE
    ELSE Cardinality(all_files) = 1 /\ file \in all_files
         /\ token_file_counts[export_name] > 0


(***************************************************************************)
(* lib.rs: export usage and the report.                                     *)
(***************************************************************************)
\* The imports of the reachable modules that resolve, each with its target.
\* The imports that resolved, each with its target.
resolved_imports_of(imports, targets) ==
    {[import |-> imports[i], target |-> targets[i][1]] :
        i \in {j \in DOMAIN imports : targets[j] \notin {None, Panic}}}

ResolvedImports(reach, mods, r) ==
    UNION {resolved_imports_of(mods[f].imports, ImportTargets(r, f, mods[f])) :
              f \in reach \cap DOMAIN mods}

\* ExportUsage::default()
DefaultUsage == [all |-> FALSE, default_used |-> FALSE, names |-> {}]

\* usage_of with the fault of leaving out the second loop, the one over the
\* re-exports.
usage_without_reexports(plain, reexports) ==
    [target \in {x.target : x \in plain \cup reexports} |->
        [all |-> \E x \in plain : x.target = target /\ x.import.uses_namespace,
         default_used |-> \E x \in plain : x.target = target /\ x.import.uses_default,
         names |-> UNION {x.import.names : x \in {y \in plain : y.target = target}}]]

\* The two loops of run that fill the usage map: imports that are neither
\* side-effect-only nor re-exports accrue their flags and names, and every
\* re-export marks its target as wholly used.
usage_of(plain, reexports) ==
    [target \in {x.target : x \in plain \cup reexports} |->
        [all |-> \/ \E x \in plain : x.target = target /\ x.import.uses_namespace
                 \/ \E x \in reexports : x.target = target,
         default_used |-> \E x \in plain : x.target = target /\ x.import.uses_default,
         names |-> UNION {x.import.names : x \in {y \in plain : y.target = target}}]]

usage_from(resolved) ==
    usage_of({x \in resolved : ~x.import.side_effect_only /\ ~x.import.is_reexport},
             {x \in resolved : x.import.is_reexport})

CollectUsage(reach, mods, r) == usage_from(ResolvedImports(reach, mods, r))

\* ExportsExamined with the fault of examining the modules an unresolved
\* import may refer to.
examined_despite_unresolved(file, reach, maybe_used, entry_set) ==
    /\ file \in reach
    /\ file \notin entry_set
    /\ ~is_test_like_file(file)
    /\ ~is_declaration_file(file)

\* The guards with the fault of examining the entries as well.
examined_entries_too(file, reach, maybe_used, entry_set) ==
    /\ file \in reach
    /\ file \notin maybe_used
    /\ ~is_test_like_file(file)
    /\ ~is_declaration_file(file)

\* The guards at the head of the modules loop of run.
ExportsExamined(file, reach, maybe_used, entry_set) ==
    /\ file \in reach
    /\ file \notin maybe_used
    /\ file \notin entry_set
    /\ ~is_test_like_file(file)
    /\ ~is_declaration_file(file)

\* Whether one of the two token tests suppresses the export.
SuppressedBySymbolRef(export_name, file, counts, global_counts, reach, all_files) ==
    \/ export_appears_in_other_reachable_files(counts, export_name, reach, file)
    \/ export_appears_in_other_project_files(global_counts, export_name, all_files, file)

\* The orders in which the iterator of a HashSet may yield its members.
RECURSIVE Orders(_)
Orders(S) ==
    IF S = {} THEN {<<>>}
    ELSE UNION {{<<x>> \o rest : rest \in Orders(S \ {x})} : x \in S}

\* The names of module.exports for which the loop `for export_name in
\* &module.exports` pushes an UnusedExport.
UnusedNames(file, module, used, counts, global_counts, reach, all_files) ==
    {e \in module.exports :
        /\ ~SuppressedBySymbolRef(e, file, counts, global_counts, reach, all_files)
        /\ e \notin used.names}

\* The UnusedExport records the body of the modules loop pushes for a file:
\* names holds the names the loop over the hash set module.exports pushes a
\* record for, in the order in which the set yields them.
ModuleUnusedExports(file, module, names, used, root) ==
    IF used.all THEN <<>>
    ELSE [i \in DOMAIN names |->
             [file |-> relative_display(root, file), export |-> names[i]]]
         \o (IF module.has_default_export /\ ~used.default_used
             THEN <<[file |-> relative_display(root, file), export |-> "default"]>>
             ELSE <<>>)

\* The number of exports of the module the token tests suppress.
ModuleSuppressed(file, module, used, counts, global_counts, reach, all_files) ==
    IF used.all THEN 0
    ELSE Cardinality({e \in module.exports :
                         SuppressedBySymbolRef(e, file, counts, global_counts, reach,
                                               all_files)})

\* a.file.cmp(&b.file).then_with(|| a.export.cmp(&b.export)) is Less
ExportLess(a, b) ==
    StrLess(a.file, b.file) \/ (a.file = b.file /\ StrLess(a.export, b.export))

\* The stable sort of unused_exports.
RECURSIVE InsertExport(_, _)
InsertExport(sorted, x) ==
    IF sorted = <<>> THEN <<x>>
    ELSE IF ExportLess(x, Head(sorted)) THEN <<x>> \o sorted
    ELSE <<Head(sorted)>> \o InsertExport(Tail(sorted), x)

RECURSIVE SortExports(_)
SortExports(xs) ==
    IF xs = <<>> THEN <<>>
    ELSE InsertExport(SortExports(SubSeq(xs, 1, Len(xs) - 1)), xs[Len(xs)])

\* Vec::dedup_by: of each run of equal consecutive elements the first is kept.
RECURSIVE Dedup(_)
Dedup(xs) ==
    IF Len(xs) < 2 THEN xs
    ELSE IF xs[1] = xs[2] THEN Dedup(Tail(xs))
    ELSE <<xs[1]>> \o Dedup(Tail(xs))

\* FinishExports with the fault of leaving the findings in the order the
\* loop pushed them.
exports_in_push_order(xs) == xs

\* unused_exports.sort_by(..); unused_exports.dedup_by(..)
FinishExports(xs) == Dedup(SortExports(xs))

\* RemainingModules with the fault of leaving the loop after one module.
no_remaining_modules(todo, file) == {}

\* The modules left to the loop `for (file, module) in &modules` once it has
\* handled file: the hash map yields each module once, in any order.
RemainingModules(todo, file) == todo \ {file}


(***************************************************************************)
(* lib.rs: run.  One invocation of the analyzer walks through the phases    *)
(* below; pc is its position.  The locals of run are the variables.         *)
(***************************************************************************)
VARIABLES
    pc,                          \* the phase of run that comes next
    files,                       \* collect_source_files(&root)
    assets,                      \* the assets the --asset-roots filter keeps
    resolver,                    \* build_resolver(&root, &files)
    modules,                     \* file |-> parse_module(file)
    warnings,                    \* the warnings pushed so far
    entries,                     \* discover_entries(..)
    queue,                       \* reachable_files: the queue
    seen,                        \* reachable_files: the seen set
    reachable,                   \* the set reachable_files returned
    unresolved,                  \* collect_unresolved_local_imports(..)
    maybe_used_from_unresolved,  \* infer_potentially_used_files_from_unresolved(..)
    unused_dependencies,
    unused_files,
    used_assets,
    unused_assets,
    usage,                       \* file |-> ExportUsage
    token_file_counts,           \* token counts over the reachable files
    global_token_file_counts,    \* token counts over all source files
    todo,                        \* the modules the export loop has not yet visited
    unused_exports,
    suppressed_by_symbol_ref,
    reports                      \* the reports of the invocations completed so far

\* output.rs: the interactive terminal interface (print_tui_report).  Its files
\* are the files of disk and its directories those of folders; the trash lives
\* below Root/.haadi_trash.
VARIABLES
    running,        \* TRUE while run_tui_loop has not returned
    page,           \* TuiState.page
    delete,         \* TuiState.delete, a DeleteState
    clock           \* the latest reading of the millisecond clock

terminal == <<running, page, delete, folders, clock>>

\* The interface is not running while the analyzer works.
TerminalClosed ==
    /\ running = FALSE
    /\ page = "Summary"
    /\ delete = <<>>
    /\ folders = <<>>
    /\ clock = 0

\* lib.rs: build_resolver taken one call of discover_related_tsconfigs at a
\* time.  The analyzer's Scan runs the whole of it in one step.
VARIABLES
    seed_at,        \* the index of the seed name the loop of build_resolver is at, 0 outside it
    calls,          \* the calls of discover_related_tsconfigs in progress, the innermost last
    config_paths,   \* the BTreeSet config_paths of build_resolver
    visiting        \* the visiting set of the current seed

discovery == <<seed_at, calls, config_paths, visiting>>

\* build_resolver is not being stepped through.
DiscoveryIdle ==
    /\ seed_at = 0
    /\ calls = <<>>
    /\ config_paths = {}
    /\ visiting = {}

inputs == <<disk, manifest, configs, cli, terminal, discovery>>

scan_vars == <<files, assets, resolver, modules>>

graph_vars == <<entries, queue, seen, reachable>>

arbiter_vars == <<unresolved, maybe_used_from_unresolved>>

finding_vars == <<unused_files, used_assets, unused_assets, usage, token_file_counts,
                  global_token_file_counts>>

export_vars == <<todo, unused_exports, suppressed_by_symbol_ref>>

vars == <<inputs, pc, scan_vars, warnings, graph_vars, arbiter_vars, unused_dependencies,
          finding_vars, export_vars, reports>>

\* How many times the analyzer is invoked on the unchanged tree.
MaxRuns == 2

\* The locals of an invocation that has not started.
FreshRun ==
    /\ pc = "scan"
    /\ files = {} /\ assets = {} /\ resolver = <<>> /\ modules = <<>>
    /\ warnings = <<>>
    /\ entries = <<>> /\ queue = <<>> /\ seen = {} /\ reachable = {}
    /\ unresolved = {} /\ maybe_used_from_unresolved = {}
    /\ unused_dependencies = <<>>
    /\ unused_files = <<>> /\ used_assets = <<>> /\ unused_assets = <<>>
    /\ usage = <<>> /\ token_file_counts = <<>> /\ global_token_file_counts = <<>>
    /\ todo = {} /\ unused_exports = <<>> /\ suppressed_by_symbol_ref = 0

\* run, lines 206-225: the scan, the resolver, the first warnings, the parse.
\* parse_module(file)? returns from run with the Err of a file it cannot read.
Scan ==
    /\ pc = "scan"
    /\ files' = collect_source_files(Root)
    /\ assets' = filter_assets_by_roots(Root, collect_asset_files(Root), cli.asset_roots)
    /\ resolver' = build_resolver(Root, files')
    /\ warnings' =
           <<"Analysis is conservative by default to minimize false positives.">>
           \o (IF cli.asset_roots # <<>> /\ assets' = {}
               THEN <<"No assets matched --asset-roots filter; asset findings may be empty.">>
               ELSE <<>>)
    /\ IF \E file \in files' : read_to_string(file) = None
       THEN /\ modules' = <<>>
            /\ pc' = "failed"
       ELSE /\ modules' = [file \in files' |-> parse_module(read_to_string(file)[1])]
            /\ pc' = "entries"
    /\ UNCHANGED <<inputs, graph_vars, arbiter_vars, unused_dependencies, finding_vars,
                   export_vars, reports>>

\* run, lines 227-232, and the first lines of reachable_files.
\* discover_entries(..)? returns from run with the Err of a manifest that
\* cannot be read or parsed.
EntriesReturned(found) ==
    IF found.ok
    THEN /\ entries' = found.v
         /\ warnings' =
                warnings
                \o (IF entries' = <<>>
                    THEN <<"No entry files discovered. Pass --entry to improve unused file accuracy.">>
                    ELSE <<>>)
         /\ queue' = entries'
         /\ seen' = {}
         /\ pc' = "reach"
    ELSE /\ pc' = "failed"
         /\ UNCHANGED <<entries, warnings, queue, seen>>

DiscoverEntries ==
    /\ pc = "entries"
    /\ EntriesReturned(discover_entries(Root, files, cli.entries))
    /\ UNCHANGED <<inputs, scan_vars, reachable, arbiter_vars, unused_dependencies,
                   finding_vars, export_vars, reports>>

\* reachable_files: one iteration of the loop `while let Some(current) =
\* queue.pop_front()`.  A panic of match_alias ends the process.
ReachStep ==
    /\ pc = "reach"
    /\ queue # <<>>
    /\ LET current == Head(queue)
           targets == IF current \in DOMAIN modules
                      THEN ImportTargets(resolver, current, modules[current]) ELSE <<>>
       IN IF current \in seen
          THEN /\ queue' = Tail(queue)
               /\ UNCHANGED <<seen, pc>>
          ELSE IF Panic \in Range(targets)
          THEN /\ pc' = "panicked"
               /\ UNCHANGED <<queue, seen>>
          ELSE /\ seen' = seen \cup {current}
               /\ queue' = EnqueueTargets(Tail(queue), targets, seen')
               /\ pc' = pc
    /\ UNCHANGED <<inputs, scan_vars, warnings, entries, reachable, arbiter_vars,
                   unused_dependencies, finding_vars, export_vars, reports>>

\* reachable_files returns the seen set.
ReachDone ==
    /\ pc = "reach"
    /\ queue = <<>>
    /\ reachable' = seen
    /\ pc' = "arbiter"
    /\ UNCHANGED <<inputs, scan_vars, warnings, entries, queue, seen, arbiter_vars,
                   unused_dependencies, finding_vars, export_vars, reports>>

\* run, lines 236-251, once the loops of collect_unresolved_local_imports
\* have come to outcomes: a panic ends the program, otherwise the
\* unresolved imports are kept and the warnings about them pushed.
ArbiterEnded(outcomes) ==
    IF unresolved_panics(outcomes)
    THEN /\ pc' = "panicked"
         /\ UNCHANGED <<warnings, arbiter_vars>>
    ELSE /\ unresolved' = UnresolvedOf(outcomes)
         /\ maybe_used_from_unresolved' =
                infer_potentially_used_files_from_unresolved(files, unresolved', Root)
         /\ warnings' =
                warnings
                \o (IF unresolved' # {}
                    THEN <<"Skipped high-risk findings because "
                           \o ToString(Cardinality(unresolved'))
                           \o " local/alias imports could not be resolved.">>
                         \o (IF maybe_used_from_unresolved' # {}
                             THEN <<"Suppressed unused-export findings for "
                                    \o ToString(Cardinality(maybe_used_from_unresolved'))
                                    \o " files potentially referenced by unresolved imports.">>
                             ELSE <<>>)
                    ELSE <<>>)
         /\ pc' = "deps"

\* run, lines 236-251: the unresolved imports and the warnings about them.
Arbiter ==
    /\ pc = "arbiter"
    /\ ArbiterEnded(ImportOutcomes(reachable, modules, resolver))
    /\ UNCHANGED <<inputs, scan_vars, graph_vars, unused_dependencies, finding_vars,
                   export_vars, reports>>

\* collect_used_packages comes first, its loops coming to outcomes, and may
\* panic; collect_declared_dependencies(&root)? returns from run with the
\* Err of a manifest that cannot be read or parsed.
DependenciesReturned(declared_deps, outcomes) ==
    IF Panic \in outcomes
    THEN /\ pc' = "panicked"
         /\ UNCHANGED unused_dependencies
    ELSE IF declared_deps.ok
    THEN /\ unused_dependencies' =
                UnusedDependencies(declared_deps.v, UsedCollected(outcomes),
                                   cli.include_non_prod_deps)
         /\ pc' = "gate"
    ELSE /\ pc' = "failed"
         /\ UNCHANGED unused_dependencies

\* run, lines 253-272: the unused dependencies.
Dependencies ==
    /\ pc = "deps"
    /\ DependenciesReturned(collect_declared_dependencies,
                            PackageOutcomes(reachable, modules, resolver))
    /\ UNCHANGED <<inputs, scan_vars, warnings, graph_vars, arbiter_vars, finding_vars,
                   export_vars, reports>>

\* let high_confidence_graph = unresolved.is_empty()
high_confidence_graph == unresolved = {}

\* GateOpen with the fault of never closing.
gate_always_open(high_confidence, include_low_confidence) == TRUE

\* The condition of the branch at line 279.
GateOpen(high_confidence, include_low_confidence) ==
    high_confidence \/ include_low_confidence

\* UnusedFiles with the fault of listing the reachable files as well.
all_files_unused(all_files, reach, root) ==
    SortStrings({relative_display(root, path) : path \in all_files})

\* The unused files of run, lines 280-289.
UnusedFiles(all_files, reach, root) ==
    SortStrings({relative_display(root, path) :
                    path \in {f \in all_files \ reach :
                                 /\ ~is_test_like_file(f)
                                 /\ ~is_declaration_file(f)
                                 /\ ~is_common_config_file(f)}})

\* run, lines 279-350: with the gate open, the unused files, the assets, the
\* token indexes and the usage map.
Findings ==
    /\ pc = "gate"
    /\ GateOpen(high_confidence_graph, cli.include_low_confidence)
    /\ unused_files' = UnusedFiles(files, reachable, Root)
    /\ LET used_asset_paths == collect_used_assets(Root, files, assets)
       IN /\ used_assets' =
                 SortStrings({relative_display(Root, path) : path \in used_asset_paths})
          /\ unused_assets' =
                 SortStrings({relative_display(Root, path) :
                                 path \in {a \in assets \ used_asset_paths :
                                              ~is_public_asset(a)}})
    /\ LET token_cache == build_file_token_cache(files)
       IN /\ token_file_counts' = count_tokens_in_scope(reachable, token_cache)
          /\ global_token_file_counts' = count_tokens_in_scope(files, token_cache)
    /\ usage' = CollectUsage(reachable, modules, resolver)
    /\ todo' = DOMAIN modules
    /\ pc' = "exports"
    /\ UNCHANGED <<inputs, scan_vars, warnings, graph_vars, arbiter_vars,
                   unused_dependencies, unused_exports, suppressed_by_symbol_ref, reports>>

\* run, lines 352-408: the body of the modules loop for one module, the hash
\* map yielding the modules and the hash set the exports in any order.
ExportStep ==
    /\ pc = "exports"
    /\ \E file \in todo :
           LET module == modules[file]
               used == IF file \in DOMAIN usage THEN usage[file] ELSE DefaultUsage
           IN IF ExportsExamined(file, reachable, maybe_used_from_unresolved, Range(entries))
              THEN /\ \E names \in Orders(UnusedNames(file, module, used, token_file_counts,
                                                       global_token_file_counts, reachable,
                                                       files)) :
                          unused_exports' =
                              unused_exports
                              \o ModuleUnusedExports(file, module, names, used, Root)
                   /\ suppressed_by_symbol_ref' =
                          suppressed_by_symbol_ref
                          + ModuleSuppressed(file, module, used, token_file_counts,
                                             global_token_file_counts, reachable, files)
                   /\ warnings' =
                          warnings
                          \o (IF module.has_export_all /\ ~used.all
                              THEN <<relative_display(Root, file)
                                     \o " re-exports '*' and may need manual verification.">>
                              ELSE <<>>)
                   /\ todo' = RemainingModules(todo, file)
              ELSE /\ todo' = RemainingModules(todo, file)
                   /\ UNCHANGED <<unused_exports, suppressed_by_symbol_ref, warnings>>
    /\ pc' = pc
    /\ UNCHANGED <<inputs, scan_vars, graph_vars, arbiter_vars, unused_dependencies,
                   finding_vars, reports>>

\* run, lines 410-417: after the loop.
ExportsDone ==
    /\ pc = "exports"
    /\ todo = {}
    /\ unused_exports' = FinishExports(unused_exports)
    /\ warnings' =
           warnings
           \o (IF suppressed_by_symbol_ref > 0
               THEN <<"Suppressed " \o ToString(suppressed_by_symbol_ref)
                      \o " unused-export findings because the symbol appears in other reachable files.">>
               ELSE <<>>)
    /\ pc' = "report"
    /\ UNCHANGED <<inputs, scan_vars, graph_vars, arbiter_vars, unused_dependencies,
                   finding_vars, todo, suppressed_by_symbol_ref, reports>>

\* run, lines 418-427: with the gate closed the risky findings are omitted.
Omit ==
    /\ pc = "gate"
    /\ ~GateOpen(high_confidence_graph, cli.include_low_confidence)
    /\ warnings' =
           warnings
           \o <<"unused_files and unused_exports omitted (use --include-low-confidence to force).",
                "unused_assets omitted because graph confidence is low (use --include-low-confidence to force).">>
    /\ pc' = "report"
    /\ UNCHANGED <<inputs, scan_vars, graph_vars, arbiter_vars, unused_dependencies,
                   finding_vars, export_vars, reports>>

\* ReportSummary, lines 428-450; the coverage percentage is kept as the
\* pair of the numerator and the denominator of the division.
Summary ==
    LET total_asset_files == Cardinality(assets)
        unused_assets_count == Len(unused_assets)
        used_assets_count == IF total_asset_files >= unused_assets_count
                             THEN total_asset_files - unused_assets_count ELSE 0
    IN [total_source_files |-> Cardinality(files),
        total_asset_files |-> total_asset_files,
        total_reachable_files |-> Cardinality(reachable),
        total_entries |-> Len(entries),
        unresolved_local_imports |-> Cardinality(unresolved),
        high_confidence_graph |-> high_confidence_graph,
        omitted_risky_findings |->
            ~GateOpen(high_confidence_graph, cli.include_low_confidence),
        unused_files_count |-> Len(unused_files),
        used_assets_count |-> used_assets_count,
        unused_assets_count |-> unused_assets_count,
        asset_usage_coverage_pct |->
            IF total_asset_files = 0 THEN <<0, 1>>
            ELSE <<used_assets_count * 100, total_asset_files>>,
        unused_dependencies_count |-> Len(unused_dependencies),
        unused_exports_count |-> Len(unused_exports)]

\* run, lines 428-475: the report is assembled and printed.
Report ==
    /\ pc = "report"
    /\ reports' =
           Append(reports,
                  [root |-> Root,
                   summary |-> Summary,
                   entries |-> [i \in DOMAIN entries |-> relative_display(Root, entries[i])],
                   warnings |-> warnings,
                   unused_files |-> unused_files,
                   used_assets |-> used_assets,
                   unused_assets |-> unused_assets,
                   unused_dependencies |-> unused_dependencies,
                   unused_exports |-> unused_exports])
    /\ pc' = "done"
    /\ UNCHANGED <<inputs, scan_vars, warnings, graph_vars, arbiter_vars,
                   unused_dependencies, finding_vars, export_vars>>

\* The analyzer is invoked again on the unchanged tree with the same flags.
Rerun ==
    /\ pc = "done"
    /\ Len(reports) < MaxRuns
    /\ pc' = "scan"
    /\ files' = {} /\ assets' = {} /\ resolver' = <<>> /\ modules' = <<>>
    /\ warnings' = <<>>
    /\ entries' = <<>> /\ queue' = <<>> /\ seen' = {} /\ reachable' = {}
    /\ unresolved' = {} /\ maybe_used_from_unresolved' = {}
    /\ unused_dependencies' = <<>>
    /\ unused_files' = <<>> /\ used_assets' = <<>> /\ unused_assets' = <<>>
    /\ usage' = <<>> /\ token_file_counts' = <<>> /\ global_token_file_counts' = <<>>
    /\ todo' = {} /\ unused_exports' = <<>> /\ suppressed_by_symbol_ref' = 0
    /\ UNCHANGED <<inputs, reports>>

(***************************************************************************)
(* The projects the analyzer is run on.  Each family varies one concern:    *)
(* the import graph, the manifest, the assets, the path mappings, the       *)
(* entry hints, the export loop.                                            *)
(***************************************************************************)
St(kind, text, spec) == [kind |-> kind, text |-> text, spec |-> spec]

Code(text) == St("code", text, "")

\* Cli with every flag at its default.
DefaultCli ==
    [entries |-> <<>>, asset_roots |-> <<>>,
     include_non_prod_deps |-> FALSE, include_low_confidence |-> FALSE,
     json |-> FALSE, tui |-> FALSE]

Project(d, m, c, l) == [disk |-> d, manifest |-> m, configs |-> c, cli |-> l]

NoConfigs == <<>>

\* The import graph: an index, two modules, a file nothing imports.
GraphIndexBodies ==
    {<<>>,
     <<St("import_from", "{ foo }", "./a")>>,
     <<St("import_from", "{ foo }", "./a"), St("import_side_effect", "", "./b")>>,
     <<St("import_from", "{ foo }", "./a"), St("export_list", "x", "./b")>>,
     <<St("import_from", "* as ns", "./a"), St("dyn_import", "", "./b")>>,
     <<St("import_from", "{ foo }", "./a"), St("import_from", "{ z }", "./missing")>>,
     <<St("import_from", "d", "./b"), St("import_from", "{ foo }", "./a.ts")>>,
     <<St("import_from", "{ foo }", "./a"), St("import_from", "{ q }", "./a.js")>>}

GraphDisk(index, orphan) ==
    ("/r/src/index.ts" :> index)
    @@ ("/r/src/a.ts" :> <<St("import_side_effect", "", "./index"),
                            St("export_decl", "foo", ""),
                            St("export_decl", "helperX", "")>>)
    @@ ("/r/src/b.ts" :> <<St("export_decl", "x", ""), St("export_default", "1", "")>>)
    @@ ("/r/src/orphan.ts" :> orphan)

GraphProjects ==
    {Project(GraphDisk(index, orphan), None, NoConfigs,
             [DefaultCli EXCEPT !.include_low_confidence = low]) :
        index \in GraphIndexBodies,
        orphan \in {<<Code("helperX()")>>, <<Code("run()")>>},
        low \in BOOLEAN}

\* The manifest: dependency sections against the packages the index imports.
Versions(names) == JObj([name \in names |-> JStr("^1.0.0")])

\* The last two are a manifest that is no JSON for its trailing comma, and
\* one that names a dependency twice and holds values of every kind.
Manifests ==
    {None,
     Some(JsonText(JObj(("name" :> JStr("app"))
                        @@ ("dependencies" :>
                                Versions({"lodash", "react", "@scope/pkg", "@types/node",
                                          "socket.io"}))))),
     Some(JsonText(JObj(("dependencies" :> Versions({"lodash"}))
                        @@ ("devDependencies" :> Versions({"lodash", "jest", "@types/jest"}))
                        @@ ("peerDependencies" :> Versions({"react", "jest"}))
                        @@ ("optionalDependencies" :> Versions({"fsevents", "react"}))))),
     Some(JsonText(JObj(("dependencies" :> Versions({"react", "left-pad"}))
                        @@ ("devDependencies" :> Versions({"react", "@scope/pkg"}))))),
     Some(JsonText(JObj(("dependencies" :> JStr("none"))
                        @@ ("devDependencies" :> Versions({"jest"}))))),
     Some("{\"dependencies\": {\"lodash\": \"^1.0.0\",}}"),
     Some("{\n  \"private\": true, \"version\": \"1.0.0\", \"files\": [\"lib\", 1.5e3, null],\n"
          \o "  \"dependencies\": {\"react\": \"^17\", \"left\\u002dpad\": \"1\", \"react\": \"^18\"}\n}\n")}

DependencyIndexBodies ==
    {<<>>,
     <<St("import_from", "fp", "lodash/fp"), St("import_from", "x", "@scope/pkg/sub")>>,
     <<St("require", "react", "react"), St("import_side_effect", "", "socket.io"),
       St("import_from", "{ h }", "./helper")>>,
     <<St("import_from", "fp", "lodash/fp"), St("import_from", "{ g }", "./gone")>>}

DependencyProjects ==
    {Project(("/r/index.js" :> index) @@ ("/r/helper.js" :> <<St("export_decl", "h", "")>>),
             m, NoConfigs, [DefaultCli EXCEPT !.include_non_prod_deps = all_kinds]) :
        index \in DependencyIndexBodies, m \in Manifests, all_kinds \in BOOLEAN}

\* The assets: imported, named in a string literal, matched by a glob,
\* public, outside the asset roots, imported by an unreachable file only.
AssetIndexBodies ==
    {<<>>,
     <<St("import_from", "logo", "./logo.png"), Code("const h = \"assets/hero.svg\"")>>,
     <<St("glob", "", "../assets/*.svg")>>,
     <<St("import_from", "x", "../other/x.png")>>,
     <<St("import_from", "x", "../other/x.png"), St("import_side_effect", "", "./nothing")>>}

AssetDisk(index, orphan) ==
    ("/r/src/index.ts" :> index)
    @@ ("/r/src/orphan.ts" :> orphan)
    @@ ("/r/src/logo.png" :> <<>>)
    @@ ("/r/assets/hero.svg" :> <<>>)
    @@ ("/r/public/fav.ico" :> <<>>)
    @@ ("/r/other/x.png" :> <<>>)

AssetProjects ==
    {Project(AssetDisk(index, orphan), None, NoConfigs,
             [DefaultCli EXCEPT !.asset_roots = roots, !.include_low_confidence = low]) :
        index \in AssetIndexBodies,
        orphan \in {<<>>, <<St("import_from", "hero", "../assets/hero.svg")>>},
        roots \in {<<>>, <<"assets">>, <<"./src/", "public">>, <<"nomatch">>},
        low \in BOOLEAN}

\* The path mappings: tsconfig files with `paths`, `baseUrl`, `extends` and
\* `references`, against imports written through the aliases.
Paths(mapping) ==
    JObj([key \in DOMAIN mapping |->
             JArr([i \in DOMAIN mapping[key] |-> JStr(mapping[key][i])])])

WithPaths(mapping) == JObj("compilerOptions" :> JObj("paths" :> Paths(mapping)))

\* The files with the text of the values they hold.
ConfigTexts(values) == [path \in DOMAIN values |-> JsonText(values[path])]

ConfigValueSets ==
    {NoConfigs,
     "/r/tsconfig.json" :> WithPaths("@/*" :> <<"./src/*">>),
     "/r/tsconfig.json" :> WithPaths("@/*" :> <<"./src/*", "./lib/*">>),
     "/r/tsconfig.json" :> WithPaths("@/*" :> <<"./nowhere/*", "./lib/*">>),
     ("/r/tsconfig.json" :> JObj("extends" :> JStr("./tsconfig.base")))
     @@ ("/r/tsconfig.base.json" :>
             JObj("compilerOptions" :>
                      JObj(("baseUrl" :> JStr("./lib"))
                           @@ ("paths" :> Paths("#a" :> <<"./lib/a.ts">>))))),
     "/r/tsconfig.json" :>
         WithPaths(("a*a" :> <<"./src/a.ts">>) @@ ("@/*" :> <<"./src/*">>)),
     ("/r/tsconfig.json" :> WithPaths("@/*" :> <<"./src/*">>))
     @@ ("/r/tsconfig.app.json" :>
             WithPaths(("@/*" :> <<"./lib/*">>) @@ ("~/*" :> <<"./lib/*">>))),
     ("/r/tsconfig.json" :> WithPaths("a" :> <<"./src/a.ts">>))
     @@ ("/r/tsconfig.app.json" :> WithPaths("a*a" :> <<"./nowhere/*">>)),
     ("/r/jsconfig.json" :>
          JObj(("references" :> JArr(<<JObj("path" :> JStr("./packages/core"))>>))
               @@ ("compilerOptions" :> JObj("baseUrl" :> JStr(".")))))
     @@ ("/r/packages/core/tsconfig.json" :> WithPaths("@/*" :> <<"../../lib/*">>))}

\* Configuration files as they are written by hand: with comments and
\* trailing commas, with a key and a target that hold what sanitize_jsonc
\* takes out of the text, cut short, empty, and with `extends` naming a
\* source file that holds JSON.
WrittenConfigSets ==
    {"/r/tsconfig.json" :>
         ("{\n  // path mappings\n  \"compilerOptions\": {\n    /* aliases */\n"
          \o "    \"paths\": { \"@/*\": [\"./src/*\",], },\n  },\n}\n"),
     "/r/tsconfig.json" :>
         "{\"compilerOptions\": {\"paths\": {\"@,}/*\": [\"./src/*\"], \"~/*\": [\"./lib, ]/*\", \"./lib/*\"]}}}",
     "/r/tsconfig.json" :> "{\"compilerOptions\": {\"paths\": {\"@/*\": [\"./src/*\"]}}",
     ("/r/tsconfig.json" :> "") @@ ("/r/jsconfig.json" :> "[1, 2] x"),
     "/r/tsconfig.json" :> "{\"extends\": \"./src/q#1.ts\", \"compilerOptions\": {\"baseUrl\": 1}}"}

ConfigSets == {ConfigTexts(values) : values \in ConfigValueSets} \cup WrittenConfigSets

AliasIndexBodies ==
    {<<St("import_from", "{ foo }", "@/a")>>,
     <<St("import_from", "{ foo }", "@/a.ts"), St("import_from", "{ z }", "@/gone")>>,
     <<St("import_from", "x", "a")>>,
     <<St("import_from", "{ foo }", "~/a"), St("import_from", "y", "#a")>>}

AliasDisk(index) ==
    ("/r/src/index.ts" :> index)
    @@ ("/r/src/a.ts" :> <<St("export_decl", "foo", "")>>)
    @@ ("/r/lib/a.ts" :> <<St("export_decl", "foo", ""), St("export_decl", "bar", "")>>)
    @@ ("/r/src/q#1.ts" :> <<Code("{\"compilerOptions\": {\"baseUrl\": \"../lib\"}}")>>)

AliasProjects ==
    {Project(AliasDisk(index), None, c, DefaultCli) :
        index \in AliasIndexBodies, c \in ConfigSets}

\* The entry hints, against a manifest entry, a conventional entry, a
\* framework page and a test file.
EntryDisk ==
    ("/r/src/index.ts" :> <<St("import_from", "{ a }", "./a")>>)
    @@ ("/r/src/a.ts" :> <<St("export_decl", "a", ""), St("export_decl", "spare", "")>>)
    @@ ("/r/src/a.test.ts" :> <<St("import_from", "{ a }", "./a")>>)
    @@ ("/r/pages/home.tsx" :> <<St("export_default", "Home", "")>>)

EntryHints ==
    {<<>>, <<"src/a.ts">>, <<"missing.ts">>, <<"src/a", "nope">>, <<"pages/home">>}

EntryProjects ==
    {Project(EntryDisk, m, NoConfigs, [DefaultCli EXCEPT !.entries = hints]) :
        hints \in EntryHints,
        m \in {None,
                Some(JsonText(JObj(("main" :> JStr("src/a.ts"))
                                   @@ ("exports" :> JObj("." :> JStr("./pages/home.tsx")))))),
                Some("{\"main\": \"src/a.ts\" \"bin\": {}}")}}

\* The unused-file filter: test-like files, a declaration stub and
\* configuration files next to plain unreachable files.
FilterDisk(index) ==
    ("/r/src/index.ts" :> index)
    @@ ("/r/src/used.ts" :> <<St("export_decl", "u", "")>>)
    @@ ("/r/src/old.ts" :> <<Code("old()")>>)
    @@ ("/r/src/old.spec.tsx" :> <<Code("it()")>>)
    @@ ("/r/src/__tests__/util.ts" :> <<Code("util()")>>)
    @@ ("/r/src/types.d.ts" :> <<Code("declare const t: number")>>)
    @@ ("/r/src/appConfig.ts" :> <<St("export_decl", "port", "")>>)
    @@ ("/r/vite.config.ts" :> <<St("export_default", "{}", "")>>)
    @@ ("/r/.eslintrc.js" :> <<Code("module.exports = {}")>>)

FilterProjects ==
    {Project(FilterDisk(index), None, NoConfigs,
             [DefaultCli EXCEPT !.entries = hints, !.include_low_confidence = low]) :
        index \in {<<St("import_from", "{ u }", "./used")>>,
                   <<St("import_from", "{ u }", "./used"),
                     St("import_from", "{ port }", "./appConfig")>>,
                   <<St("import_side_effect", "", "./old"),
                     St("import_side_effect", "", "./absent")>>},
        hints \in {<<>>, <<"src/index.ts">>},
        low \in BOOLEAN}

\* The export loop: two barrels that re-export '*' and a module with
\* several unused exports.
BarrelDisk(extra) ==
    ("/r/index.ts" :> <<St("import_from", "{ m }", "./m1"),
                        St("import_from", "{ n }", "./m2")>> \o extra)
    @@ ("/r/m1.ts" :> <<St("export_all", "", "./x"), St("export_decl", "m", ""),
                        St("export_decl", "m1only", "")>>)
    @@ ("/r/m2.ts" :> <<St("export_all", "", "./x"), St("export_decl", "n", ""),
                        St("export_list", "k as n2, n as default", "")>>)
    @@ ("/r/x.ts" :> <<St("export_decl", "k", ""), St("export_default", "k", "")>>)

BarrelProjects ==
    {Project(BarrelDisk(extra), None, NoConfigs, DefaultCli) :
        extra \in {<<>>, <<Code("m1only + 1")>>}}

\* Export usage: one module with named, renamed and default exports behind
\* each way of importing it, next to a test file, a declaration stub and an
\* entry that export names nothing imports.
UsageIndexBodies ==
    {<<St("import_from", "{ foo }", "./util")>>,
     <<St("import_from", "{ foo }", "./util"), St("import_from", "{ z }", "./lib/util")>>,
     <<St("import_from", "* as ns", "./util")>>,
     <<St("require", "ns", "./util")>>,
     <<St("destructure_require", "foo", "./util")>>,
     <<St("dyn_import", "", "./util")>>,
     <<St("export_all", "", "./util")>>,
     <<St("export_list", "foo", "./util")>>,
     <<St("import_from", "d, { qux }", "./util")>>,
     <<St("import_side_effect", "", "./util")>>,
     <<St("import_from", "{ foo as f2, baz }", "./util")>>}

UsageDisk(index) ==
    ("/r/src/index.ts" :> index \o <<St("import_side_effect", "", "./helper.test.ts"),
                                     St("import_side_effect", "", "./types.d.ts"),
                                     St("import_side_effect", "", "./extra"),
                                     St("export_decl", "main", "")>>)
    @@ ("/r/src/extra.ts" :> <<St("export_decl", "spare", "")>>)
    @@ ("/r/src/util.ts" :> <<St("export_decl", "foo", ""), St("export_decl", "bar", ""),
                               St("export_list", "baz as qux", ""),
                               St("export_default", "foo", "")>>)
    @@ ("/r/src/helper.test.ts" :> <<St("export_decl", "fixture", "")>>)
    @@ ("/r/src/types.d.ts" :> <<St("export_decl", "Shape", "")>>)

UsageProjects ==
    {Project(UsageDisk(index), None, NoConfigs,
             [DefaultCli EXCEPT !.entries = hints, !.include_low_confidence = low]) :
        index \in UsageIndexBodies,
        hints \in {<<>>, <<"src/index.ts">>},
        low \in BOOLEAN}

\* The base directories: a bare and a dotted specifier that name a file
\* below src and below the baseUrl of a configuration file.
BaseDirIndexBodies ==
    {<<St("import_from", "{ foo }", "utils/foo")>>,
     <<St("import_from", "{ foo }", "utils/foo.ts")>>,
     <<St("import_from", "{ foo }", "utils/foo"),
       St("import_from", "{ bar }", "shared/bar.ts")>>,
     <<St("import_from", "{ u }", "./utils"), St("import_from", "{ b }", "./both"),
       St("import_side_effect", "", "./theme.css")>>}

BaseDirDisk(index) ==
    ("/r/src/index.ts" :> index)
    @@ ("/r/src/utils/foo.ts" :> <<St("export_decl", "foo", "")>>)
    @@ ("/r/src/utils/index.ts" :> <<St("export_decl", "u", "")>>)
    @@ ("/r/src/both.ts" :> <<St("export_decl", "b", "")>>)
    @@ ("/r/src/both.js" :> <<St("export_decl", "b", "")>>)
    @@ ("/r/src/theme.css" :> <<>>)
    @@ ("/r/lib/utils/foo.ts" :> <<St("export_decl", "foo", "")>>)
    @@ ("/r/lib/shared/bar.ts" :> <<St("export_decl", "bar", "")>>)

BaseDirProjects ==
    {Project(BaseDirDisk(index), None, c, DefaultCli) :
        index \in BaseDirIndexBodies,
        c \in {NoConfigs,
                "/r/tsconfig.json" :>
                    JsonText(JObj("compilerOptions" :> JObj("baseUrl" :> JStr("./lib"))))}}

\* Tiny projects: a single source file, and an entry next to a file nothing
\* imports, so that one file is all that is reachable or all there is.
SoloDisks ==
    {"/r/src/lib.ts" :> <<St("export_decl", "solo", ""), St("export_default", "solo", "")>>,
     "/r/src/index.ts" :> <<St("export_decl", "solo", "")>>,
     ("/r/src/index.ts" :> <<St("export_decl", "solo", "")>>)
     @@ ("/r/src/spare.ts" :> <<St("export_decl", "spare", "")>>)}

SoloProjects ==
    {Project(d, None, NoConfigs, [DefaultCli EXCEPT !.entries = hints]) :
        d \in SoloDisks, hints \in {<<>>, <<"src/lib.ts">>, <<"src/spare">>}}

\* The text of the sources: a class exported with a block comment between
\* its name and `extends'; comments that hold an import and an export, and
\* string literals in backquotes that hold the start of a comment and the
\* path of an asset; a source file that is no UTF-8 text.
TextDisks ==
    {("/r/src/index.ts" :> <<St("import_side_effect", "", "./f"), Code("const Aextends = 1")>>)
     @@ ("/r/src/f.ts" :> <<Code("export class A/**/extends B {}")>>),
     ("/r/src/index.ts" :>
          <<St("comment", "import './ghost'", ""),
            Code("/* import './ghost'\nexport const hidden = 1 */"),
            Code("const host = " \o Backquote \o "http://host" \o Backquote
                 \o "; import('./late')"),
            Code("const logo = " \o Backquote \o "./logo.svg" \o Backquote),
            St("export_decl", "shown", "")>>)
     @@ ("/r/src/late.ts" :> <<St("export_decl", "late", "")>>)
     @@ ("/r/src/logo.svg" :> <<>>)
     @@ ("/r/src/spare.png" :> <<>>),
     ("/r/src/index.ts" :> <<St("import_side_effect", "", "./f")>>)
     @@ ("/r/src/f.ts" :> NotUtf8)}

TextProjects == {Project(d, None, NoConfigs, DefaultCli) : d \in TextDisks}

\* The analyzer is started on project p.
Start(p) ==
    /\ disk = p.disk
    /\ manifest = p.manifest
    /\ configs = p.configs
    /\ cli = p.cli

Init ==
    /\ \/ \E p \in GraphProjects : Start(p)
       \/ \E p \in DependencyProjects : Start(p)
       \/ \E p \in AssetProjects : Start(p)
       \/ \E p \in AliasProjects : Start(p)
       \/ \E p \in EntryProjects : Start(p)
       \/ \E p \in BarrelProjects : Start(p)
       \/ \E p \in FilterProjects : Start(p)
       \/ \E p \in UsageProjects : Start(p)
       \/ \E p \in BaseDirProjects : Start(p)
       \/ \E p \in SoloProjects : Start(p)
       \/ \E p \in TextProjects : Start(p)
    /\ FreshRun
    /\ reports = <<>>
    /\ TerminalClosed
    /\ DiscoveryIdle

Next ==
    \/ Scan
    \/ DiscoverEntries
    \/ ReachStep
    \/ ReachDone
    \/ Arbiter
    \/ Dependencies
    \/ Findings
    \/ ExportStep
    \/ ExportsDone
    \/ Omit
    \/ Report
    \/ Rerun

Spec == Init /\ [][Next]_vars

(***************************************************************************)
(* output.rs: the delete page of the terminal interface.  A "world" is the *)
(* DeleteState together with the tree the page works on: [state, disk,     *)
(* dirs], disk the regular files and dirs the directories, each with       *)
(* whether entries can be made and removed in it.  Two outputs that no     *)
(* handler reads are left out: state.message, the line draw_page shows,    *)
(* and the lines of the append-only log deletions.jsonl, a file that is    *)
(* there or not.                                                           *)
(***************************************************************************)

\* state.trash_root
TrashRoot == Root \o "/.haadi_trash"

SessionsRoot == TrashRoot \o "/sessions"

SessionPath(session_id) == SessionsRoot \o "/" \o session_id

\* the log that write_delete_log appends to
LogPath == TrashRoot \o "/deletions.jsonl"

\* the regular files below a directory
WalkFiles(fs, dir) == {f \in DOMAIN fs : StartsWith(f, dir \o "/")}

\* Path::exists: a regular file or a directory, with entries or without
PathExists(fs, dirs, p) == p \in DOMAIN fs \/ p \in DOMAIN dirs

\* p is an entry of the directory dir
EntryOf(p, dir) == StartsWith(p, dir \o "/") /\ ~Contains(From(p, Len(dir) + 2), "/")

\* the entries of a directory, which fs::read_dir yields in any order
ReadDir(fs, dirs, dir) == {p \in DOMAIN fs \cup DOMAIN dirs : EntryOf(p, dir)}

\* all that lies below a directory
Below(fs, dirs, dir) == {p \in DOMAIN fs \cup DOMAIN dirs : StartsWith(p, dir \o "/")}

\* The orders in which WalkDir yields the regular files at and below a path:
\* the entries of a directory come as read_dir yields them, and what lies
\* below an entry comes before the next entry.
RECURSIVE WalkDir(_, _, _)
RECURSIVE WalkEntries(_, _, _)
WalkEntries(fs, dirs, order) ==
    IF order = <<>> THEN {<<>>}
    ELSE {first \o rest : first \in WalkDir(fs, dirs, Head(order)),
                          rest \in WalkEntries(fs, dirs, Tail(order))}

WalkDir(fs, dirs, p) ==
    IF p \in DOMAIN fs THEN {<<p>>}
    ELSE UNION {WalkEntries(fs, dirs, order) : order \in Orders(ReadDir(fs, dirs, p))}

\* What an operation of std::fs leaves: ok is whether it returned Ok.
Fs(ok, fs, dirs) == [ok |-> ok, disk |-> fs, dirs |-> dirs]

\* An entry can be made or removed at p: the directory p lies in is there and
\* can be written.
ParentWritable(dirs, p) == Parent(p)[1] \in DOMAIN dirs /\ dirs[Parent(p)[1]]

\* the directories fs::create_dir_all(dir) has to make
MissingDirs(dirs, dir) == (AncestorDirs(dir) \cup {dir}) \ DOMAIN dirs

\* fs::create_dir_all(dir) is Ok: no regular file stands at dir or above it,
\* and the topmost directory to make lies in one that can be written.
create_dir_all_ok(fs, dirs, dir) ==
    /\ (AncestorDirs(dir) \cup {dir}) \cap DOMAIN fs = {}
    /\ \A d \in MissingDirs(dirs, dir) :
           Parent(d)[1] \in MissingDirs(dirs, dir) \/ ParentWritable(dirs, d)

\* fs::create_dir_all: the directories it makes can be written; when it fails
\* at the topmost missing directory it has made none.
create_dir_all(fs, dirs, dir) ==
    IF create_dir_all_ok(fs, dirs, dir)
    THEN Fs(TRUE, fs, [d \in DOMAIN dirs \cup MissingDirs(dirs, dir) |->
                           IF d \in DOMAIN dirs THEN dirs[d] ELSE TRUE])
    ELSE Fs(FALSE, fs, dirs)

\* fs::rename(from, to) is Ok: from is a regular file, no directory stands at
\* to, and the directories the two lie in are there and can be written.
rename_ok(fs, dirs, from, to) ==
    IF from \in DOMAIN dirs THEN Unmodelled("the renaming of a directory")
    ELSE /\ from \in DOMAIN fs
         /\ to \notin DOMAIN dirs
         /\ ParentWritable(dirs, from)
         /\ ParentWritable(dirs, to)

\* fs::rename of a regular file (a regular file at the target is replaced)
Rename(fs, from, to) ==
    [q \in (DOMAIN fs \ {from}) \cup {to} |-> IF q = to THEN fs[from] ELSE fs[q]]

\* the tree without the paths gone
Without(fs, dirs, gone) ==
    Fs(TRUE, [f \in DOMAIN fs \ gone |-> fs[f]], [d \in DOMAIN dirs \ gone |-> dirs[d]])

\* fs::remove_file
remove_file(fs, dirs, p) ==
    IF ParentWritable(dirs, p) THEN Without(fs, dirs, {p}) ELSE Fs(FALSE, fs, dirs)

\* Every directory at or below p that holds an entry can be written.
CanEmpty(fs, dirs, p) ==
    \A d \in ({p} \cup Below(fs, dirs, p)) \cap DOMAIN dirs :
        ReadDir(fs, dirs, d) = {} \/ dirs[d]

\* fs::remove_dir_all of the directory p.  It removes what lies below p and
\* then p, and returns the first error: with p emptied, that of removing p
\* from a directory that cannot be written; with p read-only and holding
\* nothing but regular files and empty directories, that of the first entry,
\* and nothing is removed.
remove_dir_all(fs, dirs, p) ==
    IF CanEmpty(fs, dirs, p)
    THEN IF ParentWritable(dirs, p) THEN Without(fs, dirs, {p} \cup Below(fs, dirs, p))
         ELSE [Without(fs, dirs, Below(fs, dirs, p)) EXCEPT !.ok = FALSE]
    ELSE IF ~dirs[p] /\ \A e \in ReadDir(fs, dirs, p) : ReadDir(fs, dirs, e) = {}
    THEN Fs(FALSE, fs, dirs)
    ELSE Unmodelled("a removal that stops part of the way")

\* the elements of a BTreeSet<usize> in iteration order
RECURSIVE Ascending(_)
Ascending(S) == IF S = {} THEN <<>> ELSE <<SetMin(S)>> \o Ascending(S \ {SetMin(S)})

DeleteCandidate(rel_path, kind, state) ==
    [rel_path |-> rel_path, kind |-> kind, state |-> state]

DeletedEntry(candidate, original_abs, trash_abs) ==
    [candidate |-> candidate, original_abs |-> original_abs, trash_abs |-> trash_abs]

\* The comparators of the two sort_by calls: by rel_path, then (by_kind) by kind.
CandidateBefore(a, b, by_kind) ==
    \/ StrLess(a.rel_path, b.rel_path)
    \/ by_kind /\ a.rel_path = b.rel_path /\ StrLess(a.kind, b.kind)

RECURSIVE InsertStable(_, _, _)
InsertStable(sorted, x, by_kind) ==
    IF sorted = <<>> THEN <<x>>
    ELSE IF CandidateBefore(x, Head(sorted), by_kind) THEN <<x>> \o sorted
    ELSE <<Head(sorted)>> \o InsertStable(Tail(sorted), x, by_kind)

\* Vec::sort_by, a stable sort
RECURSIVE sort_by(_, _, _)
sort_by(items, sorted, by_kind) ==
    IF items = <<>> THEN sorted
    ELSE sort_by(Tail(items), InsertStable(sorted, Head(items), by_kind), by_kind)

build_delete_candidates(report) ==
    sort_by([i \in DOMAIN report.unused_files |->
                 DeleteCandidate(report.unused_files[i], "file", "Active")]
            \o [i \in DOMAIN report.unused_assets |->
                    DeleteCandidate(report.unused_assets[i], "asset", "Active")],
            <<>>, FALSE)

\* DeleteFilter::next
DeleteFilterNext(filter) ==
    CASE filter = "All" -> "Files"
      [] filter = "Files" -> "Assets"
      [] filter = "Assets" -> "All"

\* DeleteFilter::label
DeleteFilterLabel(filter) ==
    CASE filter = "All" -> "all"
      [] filter = "Files" -> "files"
      [] filter = "Assets" -> "assets"

\* RegexBuilder::new(pattern).case_insensitive(true).build().ok()
compile_case_insensitive_regex(pattern) ==
    Compiled(pattern, ParseAlternation(pattern, 1, Flags(TRUE, FALSE, FALSE)))

\* regex::escape of one character
escape(ch) == IF Contains("\\.+*?()|[]{}^$#&-~", ch) THEN "\\" \o ch ELSE ch

\* glob_like_to_regex: ^ and $ around, * is .*, ? is ., every other
\* character escaped.
RECURSIVE glob_like_body(_)
glob_like_body(glob) ==
    IF glob = "" THEN ""
    ELSE (CASE Char(glob, 1) = "*" -> ".*"
            [] Char(glob, 1) = "?" -> "."
            [] OTHER -> escape(Char(glob, 1)))
         \o glob_like_body(Tail(glob))

glob_like_to_regex(glob) == "^" \o glob_like_body(glob) \o "$"

looks_like_regex(query) ==
    \E i \in 1..Len(query) : Contains("[]()|+^${}\\.", Char(query, i))

Substring(q) == [variant |-> "Substring", q |-> q, re |-> <<>>]

RegexMatcher(re) == [variant |-> "Regex", q |-> "", re |-> re]

SubstringUnless(compiled, q) ==
    IF compiled # None THEN RegexMatcher(compiled[1]) ELSE Substring(to_ascii_lowercase(q))

\* the pattern the trimmed query q stands for, None when q is a plain text
SearchPattern(q) ==
    IF StartsWith(q, "re:") THEN Some(From(q, 4))
    ELSE IF Len(q) >= 2 /\ StartsWith(q, "/") /\ EndsWith(q, "/")
    THEN Some(SubSeq(q, 2, Len(q) - 1))
    ELSE IF Contains(q, "*") \/ Contains(q, "?") THEN Some(glob_like_to_regex(q))
    ELSE IF looks_like_regex(q) THEN Some(q)
    ELSE None

SearchMatcherOf(q, pattern) ==
    IF q = "" THEN [variant |-> "Any", q |-> "", re |-> <<>>]
    ELSE IF pattern = None THEN Substring(to_ascii_lowercase(q))
    ELSE SubstringUnless(compile_case_insensitive_regex(pattern[1]), q)

build_search_matcher(query) == SearchMatcherOf(Trim(query), SearchPattern(Trim(query)))

\* SearchMatcher::matches
matches(matcher, path) ==
    CASE matcher.variant = "Any" -> TRUE
      [] matcher.variant = "Substring" -> Contains(to_ascii_lowercase(path), matcher.q)
      [] matcher.variant = "Regex" -> is_match(matcher.re, path)

\* the filter closure of filtered_indices
RowShown(state, item) ==
    /\ ~(item.state = "Deleted" /\ Trim(state.search_query) = "")
    /\ CASE state.filter = "All" -> TRUE
         [] state.filter = "Files" -> item.kind = "file"
         [] state.filter = "Assets" -> item.kind = "asset"
    /\ \/ Trim(state.search_query) = ""
       \/ matches(build_search_matcher(Trim(state.search_query)), item.rel_path)

\* The indices are those of the Vec: the first item has index 0.
filtered_indices(state) ==
    SelectSeq([i \in 1..Len(state.items) |-> i - 1],
              LAMBDA idx : RowShown(state, state.items[idx + 1]))

\* clamp_to with the fault of leaving the cursor where it is.
cursor_unclamped(state, len) == state

\* clamp_delete_cursor once len = filtered_indices(state).len() is known
clamp_to(state, len) ==
    IF len = 0 THEN [state EXCEPT !.cursor = 0]
    ELSE IF state.cursor >= len THEN [state EXCEPT !.cursor = len - 1]
    ELSE state

clamp_delete_cursor(state) == clamp_to(state, Len(filtered_indices(state)))

upsert_candidate_state(items, rel_path, kind, state) ==
    IF \E i \in DOMAIN items : items[i].rel_path = rel_path /\ items[i].kind = kind
    THEN [items EXCEPT
              ![SetMin({i \in DOMAIN items :
                            items[i].rel_path = rel_path /\ items[i].kind = kind})].state = state]
    ELSE Append(items, DeleteCandidate(rel_path, kind, state))

normalized_rel_query(input) ==
    TrimMatches(TrimStartMatches(Replace(Trim(input), "\\", "/"), "./"), "/")

\* result is the Result the operation returns: "Ok" for Ok(()), "Err" when a
\* `?` returned early.
World(state, fs, dirs) == [state |-> state, disk |-> fs, dirs |-> dirs, result |-> "Ok"]

\* The operation returned Err and left the state, the files and the
\* directories as they were at that point.
Failed(state, fs, dirs) == [state |-> state, disk |-> fs, dirs |-> dirs, result |-> "Err"]

\* write_delete_log once create_dir_all(trash_root) has returned made: the
\* log is opened with create and append.
log_opened(made) ==
    IF ~made.ok \/ LogPath \in DOMAIN made.dirs THEN [made EXCEPT !.ok = FALSE]
    ELSE IF LogPath \in DOMAIN made.disk THEN made
    ELSE IF ~made.dirs[TrashRoot] THEN [made EXCEPT !.ok = FALSE]
    ELSE [made EXCEPT !.disk = (LogPath :> <<>>) @@ @]

write_delete_log(fs, dirs) == log_opened(create_dir_all(fs, dirs, TrashRoot))

\* `let _ = write_delete_log(..)` under `if !entries.is_empty()`
logged_if(some, fs, dirs) == IF some THEN write_delete_log(fs, dirs) ELSE Fs(TRUE, fs, dirs)

\* the directories among the entries of sessions_root
SessionDirs(dirs) == {d \in DOMAIN dirs : EntryOf(d, SessionsRoot)}

\* their file names
SessionIds(dirs) == {From(d, Len(SessionsRoot) + 2) : d \in SessionDirs(dirs)}

\* fs::read_dir(sessions_root) is Err where Path::exists is true: a regular
\* file stands there.
ReadDirFails(fs) == SessionsRoot \in DOMAIN fs

\* the rows of latest_trashed_entries: the session, the path below it, the file
TrashRows(fs, dirs) ==
    UNION {{<<session_id, From(f, Len(SessionPath(session_id)) + 2), f>> :
                f \in WalkFiles(fs, SessionPath(session_id))} : session_id \in SessionIds(dirs)}

\* The file of the session that sorts last, for one path.
LatestRow(rows, rel) ==
    CHOOSE row \in rows :
        /\ row[2] = rel
        /\ \A other \in rows : other[2] = rel /\ other # row => StrLess(other[1], row[1])

\* The BTreeMap in iteration order: <<rel, path>> by rel.
latest_trashed_of(rows, rels) == [i \in DOMAIN rels |-> <<rels[i], LatestRow(rows, rels[i])[3]>>]

\* The rows are sorted by session, the latest first, and the first row of a
\* path is kept: the order of the walk has no part in it.
latest_trashed_rows(rows) == latest_trashed_of(rows, SortStrings({row[2] : row \in rows}))

latest_trashed_entries(fs, dirs) ==
    IF ~PathExists(fs, dirs, SessionsRoot) THEN Ok(<<>>)
    ELSE IF ReadDirFails(fs) THEN Err
    ELSE Ok(latest_trashed_rows(TrashRows(fs, dirs)))

\* The loop of prune_empty_trash_sessions: a session directory without a
\* regular file below it is removed, `let _` dropping the error of a removal.
\* No session lies in another, so the order of read_dir has no part in it.
RECURSIVE prune_each(_, _)
prune_each(tree, sessions) ==
    IF sessions = <<>> THEN tree
    ELSE prune_each(IF WalkFiles(tree.disk, Head(sessions)) # {} THEN tree
                    ELSE [remove_dir_all(tree.disk, tree.dirs, Head(sessions))
                          EXCEPT !.ok = TRUE],
                    Tail(sessions))

prune_empty_trash_sessions(fs, dirs) ==
    IF ReadDirFails(fs) THEN Fs(FALSE, fs, dirs)
    ELSE prune_each(Fs(TRUE, fs, dirs), SortStrings(SessionDirs(dirs)))

CandidateKind(path) == IF has_asset_extension(path) THEN "asset" ELSE "file"

\* generate_batch_id: "batch-" and the milliseconds since the epoch
generate_batch_id(now_unix_ms) == "batch-" \o ToString(now_unix_ms)

\* The accumulators of the loop of apply_selected_deletions.
DeletionLoop(fs, dirs, deleted_indices, deleted_entries, failed) ==
    [disk |-> fs, dirs |-> dirs, deleted_indices |-> deleted_indices,
     deleted_entries |-> deleted_entries, failed |-> failed]

\* move_to_trash once create_dir_all(parent) has returned made, and the arms
\* of its match.  The session of the batch may be there already, from a batch
\* of the same millisecond: fs::rename fails where a directory stands at the
\* trash path, and a trashed file at that path is replaced.  The directories
\* made stay when the rename fails.
moved_to_trash(acc, idx, item, original_abs, trash_abs, made) ==
    IF ~made.ok THEN [acc EXCEPT !.failed = @ + 1]
    ELSE IF ~rename_ok(acc.disk, made.dirs, original_abs, trash_abs)
    THEN [acc EXCEPT !.dirs = made.dirs, !.failed = @ + 1]
    ELSE DeletionLoop(Rename(acc.disk, original_abs, trash_abs), made.dirs,
                      Append(acc.deleted_indices, idx),
                      Append(acc.deleted_entries, DeletedEntry(item, original_abs, trash_abs)),
                      acc.failed)

move_to_trash(acc, idx, item, original_abs, batch_id) ==
    moved_to_trash(acc, idx, item, original_abs, SessionPath(batch_id) \o "/" \o item.rel_path,
                   create_dir_all(acc.disk, acc.dirs,
                                  Parent(SessionPath(batch_id) \o "/" \o item.rel_path)[1]))

\* one turn of the loop over state.selected
delete_selected(acc, idx, items, batch_id) ==
    IF idx >= Len(items) THEN acc
    ELSE IF items[idx + 1].state = "Deleted" THEN [acc EXCEPT !.failed = @ + 1]
    ELSE IF ~StartsWith(Root \o "/" \o items[idx + 1].rel_path, Root \o "/")
         THEN [acc EXCEPT !.failed = @ + 1]
    ELSE IF (Root \o "/" \o items[idx + 1].rel_path) \notin DOMAIN acc.disk
         THEN [acc EXCEPT !.failed = @ + 1]
    ELSE move_to_trash(acc, idx, items[idx + 1], Root \o "/" \o items[idx + 1].rel_path,
                       batch_id)

RECURSIVE delete_each(_, _, _, _)
delete_each(acc, idxs, items, batch_id) ==
    IF idxs = <<>> THEN acc
    ELSE delete_each(delete_selected(acc, Head(idxs), items, batch_id), Tail(idxs), items,
                     batch_id)

\* The end of apply_selected_deletions, logged being what write_delete_log
\* returned: its Err leaves the function before the batch is pushed.
deletions_logged(state, acc, logged) ==
    IF acc.deleted_entries = <<>> THEN World(state, acc.disk, acc.dirs)
    ELSE IF ~logged.ok THEN Failed(state, logged.disk, logged.dirs)
    ELSE World([state EXCEPT !.undo_stack = Append(@, acc.deleted_entries)],
               logged.disk, logged.dirs)

\* apply_selected_deletions after its loop
deletions_applied(state, acc) ==
    deletions_logged(clamp_delete_cursor(
                         [state EXCEPT
                              !.items = [i \in DOMAIN state.items |->
                                             IF (i - 1) \in Range(acc.deleted_indices)
                                             THEN [state.items[i] EXCEPT !.state = "Deleted"]
                                             ELSE state.items[i]],
                              !.selected = {}]),
                     acc, write_delete_log(acc.disk, acc.dirs))

apply_selected_deletions(w, batch_id) ==
    IF w.state.selected = {} THEN w
    ELSE deletions_applied(w.state,
                           delete_each(DeletionLoop(w.disk, w.dirs, <<>>, <<>>, 0),
                                       Ascending(w.state.selected), w.state.items, batch_id))

\* The accumulators of the restore loops; err is set when fs::create_dir_all
\* failed and `?` left the loop.
RestoreLoop(fs, dirs, items, restored, failed) ==
    [disk |-> fs, dirs |-> dirs, items |-> items, restored |-> restored, failed |-> failed,
     err |-> FALSE]

\* One turn of the loop of undo_last_deletion once create_dir_all(parent) has
\* returned made.  The candidates are upserted after the loop; no entry of a
\* batch changes what another entry finds.
entry_undone(acc, entry, made) ==
    IF ~made.ok THEN [acc EXCEPT !.err = TRUE]
    ELSE IF \/ PathExists(acc.disk, made.dirs, entry.original_abs)
            \/ ~rename_ok(acc.disk, made.dirs, entry.trash_abs, entry.original_abs)
    THEN [acc EXCEPT !.dirs = made.dirs, !.failed = @ + 1]
    ELSE RestoreLoop(Rename(acc.disk, entry.trash_abs, entry.original_abs), made.dirs,
                     upsert_candidate_state(acc.items, entry.candidate.rel_path,
                                            entry.candidate.kind, "Active"),
                     acc.restored + 1, acc.failed)

undo_entry(acc, entry) ==
    IF acc.err THEN acc
    ELSE entry_undone(acc, entry,
                      create_dir_all(acc.disk, acc.dirs, Parent(entry.original_abs)[1]))

RECURSIVE undo_each(_, _)
undo_each(acc, batch) ==
    IF batch = <<>> THEN acc ELSE undo_each(undo_entry(acc, Head(batch)), Tail(batch))

\* the end of the restore operations: sort, clear the selection, clamp
restored_state(state, acc) ==
    clamp_delete_cursor([state EXCEPT !.items = sort_by(acc.items, <<>>, TRUE),
                                      !.selected = {}])

\* a world on the tree an operation of std::fs has left, its error dropped
WorldOn(state, tree) == World(state, tree.disk, tree.dirs)

\* undo_last_deletion after its loop: no session directory is pruned.  When
\* create_dir_all failed the batch is popped, the entries before the failing
\* one are back on disk and no candidate is upserted.
undone(state, acc) ==
    IF acc.err THEN Failed(state, acc.disk, acc.dirs)
    ELSE WorldOn(restored_state(state, acc), logged_if(acc.restored > 0, acc.disk, acc.dirs))

undo_last_deletion(w) ==
    IF w.state.undo_stack = <<>> THEN w
    ELSE undone([w.state EXCEPT !.undo_stack = SubSeq(@, 1, Len(@) - 1)],
                undo_each(RestoreLoop(w.disk, w.dirs, w.state.items, 0, 0),
                          w.state.undo_stack[Len(w.state.undo_stack)]))

\* One turn of the loops of restore_session_path_counts and
\* restore_from_trash_matching once create_dir_all(parent) has returned made:
\* rel below the root, from trash_file.
file_restored(acc, rel, trash_file, made) ==
    IF ~made.ok THEN [acc EXCEPT !.err = TRUE]
    ELSE IF ~rename_ok(acc.disk, made.dirs, trash_file, Root \o "/" \o rel)
    THEN [acc EXCEPT !.dirs = made.dirs, !.failed = @ + 1]
    ELSE RestoreLoop(Rename(acc.disk, trash_file, Root \o "/" \o rel), made.dirs,
                     upsert_candidate_state(acc.items, rel, CandidateKind(Root \o "/" \o rel),
                                            "Active"),
                     acc.restored + 1, acc.failed)

restore_file(acc, rel, trash_file) ==
    IF acc.err THEN acc
    ELSE IF ~StartsWith(Root \o "/" \o rel, Root \o "/") THEN [acc EXCEPT !.failed = @ + 1]
    ELSE IF PathExists(acc.disk, acc.dirs, Root \o "/" \o rel)
    THEN [acc EXCEPT !.failed = @ + 1]
    ELSE file_restored(acc, rel, trash_file,
                       create_dir_all(acc.disk, acc.dirs, Parent(Root \o "/" \o rel)[1]))

\* rows are <<rel, trash file>>
RECURSIVE restore_each(_, _)
restore_each(acc, rows) ==
    IF rows = <<>> THEN acc
    ELSE restore_each(restore_file(acc, Head(rows)[1], Head(rows)[2]), Tail(rows))

\* The files of one session as <<rel, trash file>>, in the order WalkDir has
\* yielded them.
RowsBelow(session_path, walked) ==
    [i \in DOMAIN walked |-> <<From(walked[i], Len(session_path) + 2), walked[i]>>]

\* The end of restore_session_path_counts and of restore_from_trash_matching:
\* the empty sessions are pruned and the restored files logged, the errors of
\* both dropped.  When create_dir_all failed, the files restored before are
\* back on disk and upserted, and nothing is sorted, cleared, clamped, pruned
\* or logged.
restored_logged(state, acc, pruned) ==
    WorldOn(restored_state(state, acc), logged_if(acc.restored > 0, pruned.disk, pruned.dirs))

restored_world(state, acc) ==
    IF acc.err THEN Failed([state EXCEPT !.items = acc.items], acc.disk, acc.dirs)
    ELSE restored_logged(state, acc, prune_empty_trash_sessions(acc.disk, acc.dirs))

\* walked is the order in which WalkDir yields the files of the session
restore_session_path_counts(w, session_path, walked) ==
    restored_world(w.state,
                   restore_each(RestoreLoop(w.disk, w.dirs, w.state.items, 0, 0),
                                RowsBelow(session_path, walked)))

restore_session_path(w, session_id, session_path, walked) ==
    restore_session_path_counts(w, session_path, walked)

\* the session that sorts last
latest_session(sessions) == sessions[Len(sessions)]

\* the orders in which WalkDir can yield the files of the latest session
LatestWalks(fs, dirs) ==
    IF SessionIds(dirs) = {} THEN {<<>>}
    ELSE WalkDir(fs, dirs, SessionPath(latest_session(SortStrings(SessionIds(dirs)))))

restore_previous_session(w, walked) ==
    IF ~PathExists(w.disk, w.dirs, SessionsRoot) THEN w
    ELSE IF ReadDirFails(w.disk) THEN Failed(w.state, w.disk, w.dirs)
    ELSE IF SessionIds(w.dirs) = {} THEN w
    ELSE restore_session_path(w, latest_session(SortStrings(SessionIds(w.dirs))),
                              SessionPath(latest_session(SortStrings(SessionIds(w.dirs)))),
                              walked)

\* for each session in turn, an order in which WalkDir can yield its files
RECURSIVE SessionWalks(_, _, _)
SessionWalks(fs, dirs, sessions) ==
    IF sessions = <<>> THEN {<<>>}
    ELSE {<<walked>> \o rest :
              walked \in WalkDir(fs, dirs, SessionPath(Head(sessions))),
              rest \in SessionWalks(fs, dirs, Tail(sessions))}

\* The loop of restore_all_sessions: no session changes the files of another,
\* so walks, taken before the loop, are the walks the loop makes.
RECURSIVE restore_sessions(_, _, _)
restore_sessions(w, sessions, walks) ==
    IF sessions = <<>> \/ w.result = "Err" THEN w
    ELSE restore_sessions(restore_session_path_counts(w, SessionPath(Head(sessions)),
                                                      Head(walks)),
                          Tail(sessions), Tail(walks))

\* the sessions in the order of their names
restore_all_sessions(w, walks) ==
    IF ~PathExists(w.disk, w.dirs, SessionsRoot) THEN w
    ELSE IF ReadDirFails(w.disk) THEN Failed(w.state, w.disk, w.dirs)
    ELSE IF SessionIds(w.dirs) = {} THEN w
    ELSE restore_sessions(w, SortStrings(SessionIds(w.dirs)), walks)

\* restore_from_trash_matching once the matches are known
restore_matches(w, matched) ==
    IF matched = <<>> THEN w
    ELSE restored_world(w.state,
                        restore_each(RestoreLoop(w.disk, w.dirs, w.state.items, 0, 0),
                                     matched))

\* restore_from_trash_matching once latest_trashed_entries has returned
\* trashed; matcher is the set of the paths the closure accepts.
restore_trashed(w, trashed, matcher) ==
    IF ~trashed.ok THEN Failed(w.state, w.disk, w.dirs)
    ELSE restore_matches(w, SelectSeq(trashed.v, LAMBDA row : row[1] \in matcher))

restore_from_trash_matching(w, matcher) ==
    restore_trashed(w, latest_trashed_entries(w.disk, w.dirs), matcher)

TrashedPaths(w) == {row[2] : row \in TrashRows(w.disk, w.dirs)}

selected_deleted(state) ==
    {state.items[idx + 1].rel_path :
         idx \in {i \in state.selected : i < Len(state.items)
                                         /\ state.items[i + 1].state = "Deleted"}}

restore_specific_file_from_trash(w) ==
    IF selected_deleted(w.state) # {}
    THEN restore_from_trash_matching(w, selected_deleted(w.state))
    ELSE IF normalized_rel_query(w.state.search_query) = "" THEN w
    ELSE restore_from_trash_matching(w, {normalized_rel_query(w.state.search_query)})

restore_folder_from_trash(w) ==
    IF normalized_rel_query(w.state.search_query) = "" THEN w
    ELSE restore_from_trash_matching(
             w, {rel \in TrashedPaths(w) :
                     \/ rel = normalized_rel_query(w.state.search_query)
                     \/ StartsWith(rel, normalized_rel_query(w.state.search_query) \o "/")})

\* The loop of empty_trash over the entries of sessions_root, in the order
\* read_dir yields them: tree.ok is FALSE once a removal has failed and `?`
\* has left the loop.
RECURSIVE remove_entries(_, _)
remove_entries(tree, order) ==
    IF order = <<>> \/ ~tree.ok THEN tree
    ELSE remove_entries(IF Head(order) \in DOMAIN tree.dirs
                        THEN remove_dir_all(tree.disk, tree.dirs, Head(order))
                        ELSE remove_file(tree.disk, tree.dirs, Head(order)),
                        Tail(order))

\* empty_trash after its loop: the undo history goes, and the log is written
\* with its error dropped.
trash_emptied(state, tree) ==
    IF ~tree.ok THEN Failed(state, tree.disk, tree.dirs)
    ELSE WorldOn([state EXCEPT !.undo_stack = <<>>], write_delete_log(tree.disk, tree.dirs))

\* order is the order in which read_dir yields the entries of sessions_root
empty_trash(w, order) ==
    IF ReadDirFails(w.disk) THEN Failed(w.state, w.disk, w.dirs)
    ELSE trash_emptied(w.state, remove_entries(Fs(TRUE, w.disk, w.dirs), order))

\* the loop of hydrate_deleted_candidates_from_trash
RECURSIVE hydrate_each(_, _, _, _)
hydrate_each(items, rows, fs, dirs) ==
    IF rows = <<>> THEN items
    ELSE hydrate_each(
             upsert_candidate_state(
                 items, Head(rows)[1],
                 IF \/ has_asset_extension(Head(rows)[1])
                    \/ has_asset_extension(Head(rows)[2])
                    \/ has_asset_extension(Root \o "/" \o Head(rows)[1])
                 THEN "asset" ELSE "file",
                 IF PathExists(fs, dirs, Root \o "/" \o Head(rows)[1])
                 THEN "Active" ELSE "Deleted"),
             Tail(rows), fs, dirs)

\* hydrate_deleted_candidates_from_trash once latest_trashed_entries has
\* returned trashed: its Err leaves the state as it is, and print_tui_report
\* drops it.
hydrated(state, trashed, fs, dirs) ==
    IF ~trashed.ok THEN state
    ELSE clamp_delete_cursor(
             [state EXCEPT
                  !.items = sort_by(hydrate_each(state.items, trashed.v, fs, dirs),
                                    <<>>, TRUE)])

hydrate_deleted_candidates_from_trash(state, fs, dirs) ==
    hydrated(state, latest_trashed_entries(fs, dirs), fs, dirs)

\* toggle_selected once idx = filtered[state.cursor] is known
toggle_index(state, idx) ==
    [state EXCEPT !.selected = IF idx \in @ THEN @ \ {idx} ELSE @ \cup {idx}]

toggle_selected(state) ==
    IF filtered_indices(state) = <<>> THEN state
    ELSE toggle_index(state, filtered_indices(state)[state.cursor + 1])

reset_filter_and_search(state) ==
    clamp_delete_cursor([state EXCEPT !.filter = "All", !.search_query = "",
                                      !.search_input = "", !.editing_search = FALSE])

\* print_tui_report: the DeleteState before hydration
InitialDeleteState(report) ==
    [items |-> build_delete_candidates(report),
     selected |-> {},
     cursor |-> 0,
     confirm_delete |-> FALSE,
     confirm_empty_trash |-> FALSE,
     confirm_restore_previous |-> FALSE,
     confirm_restore_all |-> FALSE,
     filter |-> "All",
     search_query |-> "",
     search_input |-> "",
     editing_search |-> FALSE,
     root |-> report.root,
     trash_root |-> report.root \o "/.haadi_trash",
     undo_stack |-> <<>>]

(***************************************************************************)
(* output.rs: print_tui_report and the key handlers, one action per arm of *)
(* handle_summary_key and handle_delete_key.                                *)
(***************************************************************************)

\* The readings of the millisecond clock: 1..MaxClock.
MaxClock == 2

\* How many batches the undo stack holds at most.
MaxUndo == 2

\* The searches that can be typed: every prefix of these.
SearchQueries == {"d"}

TypedInputs == UNION {{SubSeq(q, 1, n) : n \in 0..Len(q)} : q \in SearchQueries}

\* The variables of the analyzer, which the interface leaves alone.
analysis == <<manifest, configs, cli, discovery, scan_vars, warnings, graph_vars, arbiter_vars,
              unused_dependencies, finding_vars, export_vars, reports>>

Here == World(delete, disk, folders)

\* The handler returned Ok(false) with the world w.
Handled(w) ==
    /\ delete' = w.state
    /\ disk' = w.disk
    /\ folders' = w.dirs

\* the first lines of print_tui_report, at the end of run
OpenTui ==
    /\ pc = "done"
    /\ ~cli.json /\ cli.tui
    /\ pc' = "tui"
    /\ running' = TRUE
    /\ page' = "Summary"
    /\ delete' = hydrate_deleted_candidates_from_trash(
                     InitialDeleteState(reports[Len(reports)]), disk, folders)
    /\ UNCHANGED <<disk, folders, clock, analysis>>

OnSummary == running /\ page = "Summary"

\* run_tui_loop returned: the TuiState, a local of print_tui_report, is gone.
Quit ==
    /\ running' = FALSE
    /\ page' = "Summary"
    /\ delete' = <<>>
    /\ UNCHANGED <<pc, disk, folders, clock, analysis>>

\* 'q' or Esc
SummaryQuit ==
    /\ OnSummary
    /\ Quit

\* 'd'
SummaryToDelete ==
    /\ OnSummary
    /\ page' = "Delete"
    /\ UNCHANGED <<pc, running, delete, disk, folders, clock, analysis>>

\* any other key
SummaryOtherKey ==
    /\ OnSummary
    /\ UNCHANGED <<pc, running, page, delete, disk, folders, clock, analysis>>

OnDelete == running /\ page = "Delete"

\* handle_delete_key returned Ok(false) with the DeleteState state.
Stays(state) ==
    /\ Handled(World(state, disk, folders))
    /\ UNCHANGED <<pc, running, page, clock, analysis>>

\* handle_delete_key returned after an operation on the files: Ok(false), or
\* the operation's Err, with which run_tui_loop returns.
Returned(w) ==
    /\ running' = (w.result = "Ok")
    /\ page' = IF w.result = "Ok" THEN page ELSE "Summary"
    /\ delete' = IF w.result = "Ok" THEN w.state ELSE <<>>
    /\ disk' = w.disk
    /\ folders' = w.dirs

Operated(w) ==
    /\ Returned(w)
    /\ UNCHANGED <<pc, clock, analysis>>

\* Enter while the search is edited
SearchEnter ==
    /\ OnDelete /\ delete.editing_search
    /\ Stays(clamp_delete_cursor([delete EXCEPT !.search_query = delete.search_input,
                                                !.editing_search = FALSE]))

\* Esc while the search is edited
SearchEsc ==
    /\ OnDelete /\ delete.editing_search
    /\ Stays([delete EXCEPT !.editing_search = FALSE, !.search_input = ""])

\* Backspace: String::pop
SearchBackspace ==
    /\ OnDelete /\ delete.editing_search
    /\ Stays([delete EXCEPT !.search_input = SubSeq(@, 1, IF @ = "" THEN 0 ELSE Len(@) - 1)])

\* Char(c): String::push
SearchChar ==
    /\ OnDelete /\ delete.editing_search
    /\ \E c \in {Char(q, i) : q \in SearchQueries, i \in 1..1} :
           /\ (delete.search_input \o c) \in TypedInputs
           /\ Stays([delete EXCEPT !.search_input = @ \o c])

\* any other key while the search is edited
SearchOtherKey ==
    /\ OnDelete /\ delete.editing_search
    /\ Stays(delete)

\* The confirmations are asked about in this order; at most one is pending.
ConfirmingDelete == OnDelete /\ ~delete.editing_search /\ delete.confirm_delete

ConfirmingEmptyTrash ==
    /\ OnDelete /\ ~delete.editing_search /\ ~delete.confirm_delete
    /\ delete.confirm_empty_trash

ConfirmingRestorePrevious ==
    /\ OnDelete /\ ~delete.editing_search /\ ~delete.confirm_delete
    /\ ~delete.confirm_empty_trash /\ delete.confirm_restore_previous

ConfirmingRestoreAll ==
    /\ OnDelete /\ ~delete.editing_search /\ ~delete.confirm_delete
    /\ ~delete.confirm_empty_trash /\ ~delete.confirm_restore_previous
    /\ delete.confirm_restore_all

Browsing ==
    /\ OnDelete /\ ~delete.editing_search /\ ~delete.confirm_delete
    /\ ~delete.confirm_empty_trash /\ ~delete.confirm_restore_previous
    /\ ~delete.confirm_restore_all

\* 'y' while confirm_delete.  The batch is named after the reading of the
\* millisecond clock, which is the reading of the batch before or a later one:
\* two batches of one millisecond share their session directory.
ConfirmDeleteYes ==
    /\ ConfirmingDelete
    /\ Len(delete.undo_stack) < MaxUndo
    /\ \E now_unix_ms \in clock..MaxClock :
           /\ clock' = now_unix_ms
           /\ Returned([apply_selected_deletions(Here, generate_batch_id(now_unix_ms))
                        EXCEPT !.state.confirm_delete = FALSE])
    /\ UNCHANGED <<pc, analysis>>

\* 'n' or Esc while confirm_delete
ConfirmDeleteNo ==
    /\ ConfirmingDelete
    /\ Stays([delete EXCEPT !.confirm_delete = FALSE])

ConfirmEmptyTrashYes ==
    /\ ConfirmingEmptyTrash
    /\ \E order \in Orders(ReadDir(disk, folders, SessionsRoot)) :
           Operated([empty_trash(Here, order) EXCEPT !.state.confirm_empty_trash = FALSE])

ConfirmEmptyTrashNo ==
    /\ ConfirmingEmptyTrash
    /\ Stays([delete EXCEPT !.confirm_empty_trash = FALSE])

ConfirmRestorePreviousYes ==
    /\ ConfirmingRestorePrevious
    /\ \E walked \in LatestWalks(disk, folders) :
           Operated([restore_previous_session(Here, walked)
                     EXCEPT !.state.confirm_restore_previous = FALSE])

ConfirmRestorePreviousNo ==
    /\ ConfirmingRestorePrevious
    /\ Stays([delete EXCEPT !.confirm_restore_previous = FALSE])

ConfirmRestoreAllYes ==
    /\ ConfirmingRestoreAll
    /\ \E walks \in SessionWalks(disk, folders, SortStrings(SessionIds(folders))) :
           Operated([restore_all_sessions(Here, walks) EXCEPT !.state.confirm_restore_all = FALSE])

ConfirmRestoreAllNo ==
    /\ ConfirmingRestoreAll
    /\ Stays([delete EXCEPT !.confirm_restore_all = FALSE])

\* the `_ => {}` arm of the four confirmations
ConfirmOtherKey ==
    /\ \/ ConfirmingDelete \/ ConfirmingEmptyTrash
       \/ ConfirmingRestorePrevious \/ ConfirmingRestoreAll
    /\ Stays(delete)

\* 'q'
DeleteQuit ==
    /\ Browsing
    /\ Quit

\* 'b' or Esc
DeleteToSummary ==
    /\ Browsing
    /\ page' = "Summary"
    /\ UNCHANGED <<pc, running, delete, disk, folders, clock, analysis>>

\* Up or 'k'
CursorUp ==
    /\ Browsing
    /\ Stays(IF filtered_indices(delete) # <<>> /\ delete.cursor > 0
             THEN [delete EXCEPT !.cursor = @ - 1] ELSE delete)

\* Down or 'j'
CursorDown ==
    /\ Browsing
    /\ Stays(IF delete.cursor + 1 < Len(filtered_indices(delete))
             THEN [delete EXCEPT !.cursor = @ + 1] ELSE delete)

\* Enter or ' '
Toggle ==
    /\ Browsing
    /\ Stays(toggle_selected(delete))

\* 'a'
SelectAll ==
    /\ Browsing
    /\ Stays([delete EXCEPT !.selected = Range(filtered_indices(delete))])

\* 'c'
ClearSelection ==
    /\ Browsing
    /\ Stays([delete EXCEPT !.selected = {}])

\* 'x' that asks for the confirmation whatever the selection
AskDeleteUnselected ==
    /\ Browsing
    /\ Stays([delete EXCEPT !.confirm_delete = TRUE])

\* 'x'
AskDelete ==
    /\ Browsing
    /\ Stays(IF delete.selected = {} THEN delete ELSE [delete EXCEPT !.confirm_delete = TRUE])

\* 'z'
AskEmptyTrash ==
    /\ Browsing
    /\ Stays([delete EXCEPT !.confirm_empty_trash = TRUE])

\* 'r'
AskRestorePrevious ==
    /\ Browsing
    /\ Stays([delete EXCEPT !.confirm_restore_previous = TRUE])

\* 'R'
AskRestoreAll ==
    /\ Browsing
    /\ Stays([delete EXCEPT !.confirm_restore_all = TRUE])

\* 'u'
Undo ==
    /\ Browsing
    /\ Operated(undo_last_deletion(Here))

\* 'i'
RestoreFile ==
    /\ Browsing
    /\ Operated(restore_specific_file_from_trash(Here))

\* 'o'
RestoreFolder ==
    /\ Browsing
    /\ Operated(restore_folder_from_trash(Here))

\* 'f'
NextFilter ==
    /\ Browsing
    /\ Stays(clamp_delete_cursor([delete EXCEPT !.filter = DeleteFilterNext(@)]))

\* 'g'
ResetFilterAndSearch ==
    /\ Browsing
    /\ Stays(reset_filter_and_search(delete))

\* '/'
StartSearch ==
    /\ Browsing
    /\ Stays([delete EXCEPT !.editing_search = TRUE, !.search_input = delete.search_query])

\* any other key
DeleteOtherKey ==
    /\ Browsing
    /\ Stays(delete)

\* The projects analyzed with --tui: an entry and, besides it, files that
\* nothing imports.
TuiDisk(index, others) == ("/r/src/index.ts" :> index) @@ others

\* A tree: its regular files, the directories that hold no regular file, and
\* the directories in which no entry can be made or removed.
Tree(fs, empty_dirs, read_only) ==
    [disk |-> fs, empty_dirs |-> empty_dirs, read_only |-> read_only]

\* one unreachable source file and one unreferenced asset
TwoUnused == ("/r/d.ts" :> <<Code("old()")>>) @@ ("/r/d/b.svg" :> <<>>)

\* An earlier use of the interface left d.ts in the trash, and the file has
\* been written anew since.
WrittenAnew ==
    ("/r/d.ts" :> <<Code("old()")>>)
    @@ ((SessionPath("batch-0") \o "/d.ts") :> <<Code("older()")>>)

\* An earlier use of the interface left d/u.ts in the trash, and the
\* directory d has given way to a regular file of that name since.
DirectoryReplaced ==
    ("/r/d.ts" :> <<Code("old()")>>)
    @@ ("/r/d" :> <<>>)
    @@ ((SessionPath("batch-0") \o "/d/u.ts") :> <<Code("util()")>>)

\* An earlier use of the interface left a regular file d in the trash, and d
\* is a directory now, empty once its one asset is deleted.
FileReplaced ==
    ("/r/d/b.svg" :> <<>>) @@ ((SessionPath("batch-0") \o "/d") :> <<>>)

\* a regular file where the sessions directory of the trash would be
SessionsIsFile == ("/r/d.ts" :> <<Code("old()")>>) @@ (SessionsRoot :> <<>>)

\* The session of an earlier use has been made read-only; a regular file lies
\* beside it.
SessionKept ==
    ((SessionPath("batch-0") \o "/d.ts") :> <<Code("older()")>>)
    @@ ((SessionsRoot \o "/README") :> <<>>)

\* The fourth tree has an import that resolves to nothing: its report omits
\* the findings, and the rows of the delete page come from the trash alone.
\* In the sixth a directory stands where the log deletions.jsonl would be.
TuiTrees ==
    {Tree(TuiDisk(<<>>, TwoUnused), {}, {}),
     Tree(TuiDisk(<<>>, WrittenAnew), {}, {}),
     Tree(TuiDisk(<<>>, DirectoryReplaced), {}, {}),
     Tree(TuiDisk(<<St("import_side_effect", "", "./absent")>>, WrittenAnew), {}, {}),
     Tree(TuiDisk(<<>>, FileReplaced), {}, {}),
     Tree(TuiDisk(<<>>, "/r/d.ts" :> <<Code("old()")>>), {LogPath}, {}),
     Tree(TuiDisk(<<>>, SessionsIsFile), {}, {}),
     Tree(TuiDisk(<<>>, SessionKept), {}, {SessionPath("batch-0")})}

\* the directories of a tree
FoldersOn(tree) ==
    [d \in {Root} \cup UNION {AncestorDirs(f) : f \in DOMAIN tree.disk}
               \cup UNION {AncestorDirs(d) \cup {d} : d \in tree.empty_dirs} |->
         d \notin tree.read_only]

\* The command lines: --tui, and --tui with --json, which prints the report
\* and opens no interface.
TuiProjects ==
    {Project(tree, None, NoConfigs, [DefaultCli EXCEPT !.tui = TRUE]) : tree \in TuiTrees}
    \cup {Project(Tree(TuiDisk(<<>>, TwoUnused), {}, {}), None, NoConfigs,
                  [DefaultCli EXCEPT !.tui = TRUE, !.json = TRUE])}

TuiInit ==
    /\ \E p \in TuiProjects :
           /\ Start([p EXCEPT !.disk = p.disk.disk])
           /\ folders = FoldersOn(p.disk)
    /\ FreshRun
    /\ reports = <<>>
    /\ running = FALSE
    /\ page = "Summary"
    /\ delete = <<>>
    /\ clock = 1    \* later than batch-0, the session of an earlier invocation
    /\ DiscoveryIdle

\* One invocation with --tui: the analysis, then the interface.
TuiNext ==
    \/ Scan
    \/ DiscoverEntries
    \/ ReachStep
    \/ ReachDone
    \/ Arbiter
    \/ Dependencies
    \/ Findings
    \/ ExportStep
    \/ ExportsDone
    \/ Omit
    \/ Report
    \/ OpenTui
    \/ SummaryQuit
    \/ SummaryToDelete
    \/ SummaryOtherKey
    \/ SearchEnter
    \/ SearchEsc
    \/ SearchBackspace
    \/ SearchChar
    \/ SearchOtherKey
    \/ ConfirmDeleteYes
    \/ ConfirmDeleteNo
    \/ ConfirmEmptyTrashYes
    \/ ConfirmEmptyTrashNo
    \/ ConfirmRestorePreviousYes
    \/ ConfirmRestorePreviousNo
    \/ ConfirmRestoreAllYes
    \/ ConfirmRestoreAllNo
    \/ ConfirmOtherKey
    \/ DeleteQuit
    \/ DeleteToSummary
    \/ CursorUp
    \/ CursorDown
    \/ Toggle
    \/ SelectAll
    \/ ClearSelection
    \/ AskDelete
    \/ AskEmptyTrash
    \/ AskRestorePrevious
    \/ AskRestoreAll
    \/ Undo
    \/ RestoreFile
    \/ RestoreFolder
    \/ NextFilter
    \/ ResetFilterAndSearch
    \/ StartSearch
    \/ DeleteOtherKey

TuiSpec == TuiInit /\ [][TuiNext]_vars


(***************************************************************************)
(* lib.rs: build_resolver, one call of discover_related_tsconfigs at a     *)
(* time.  A call in progress is [config_dir, links]: the directory of the  *)
(* configuration it reads and the links it has still to follow.            *)
(***************************************************************************)

\* Configuration files that link to each other: a seed, a second seed and a
\* file in a package, with self-references, cycles and a missing target.
LinkedConfig(extends, references, mapping) ==
    JObj((IF extends = None THEN <<>> ELSE "extends" :> JStr(extends[1]))
         @@ ("references" :>
                 JArr([i \in DOMAIN references |-> JObj("path" :> JStr(references[i]))]))
         @@ ("compilerOptions" :>
                 JObj(("baseUrl" :> JStr(".")) @@ ("paths" :> Paths(mapping)))))

LinkedConfigSets ==
    {ConfigTexts(
         ("/r/tsconfig.json" :> LinkedConfig(seed_extends, <<>>, "@/*" :> <<"./src/*">>))
         @@ ("/r/tsconfig.base.json" :>
                 LinkedConfig(None, base_references, "~/*" :> <<"./lib/*">>))
         @@ ("/r/packages/core/tsconfig.json" :>
                 LinkedConfig(core_extends, <<>>, "@/*" :> <<"../../lib/*">>))) :
        seed_extends \in {None, Some("./tsconfig.json"), Some("./tsconfig.base"),
                          Some("./tsconfig.base.json"), Some("./packages/core")},
        base_references \in {<<>>, <<"./tsconfig.json">>,
                             <<"./packages/core", "./tsconfig.base.json", "./missing">>},
        core_extends \in {None, Some("../../tsconfig.json")}}
    \cup {("/r/jsconfig.json" :> "{\"extends\": ")
          @@ ("/r/tsconfig.app.json" :> "{\"extends\": \"./jsconfig.json\", /* no more */}")}

DiscoveryProjects ==
    {Project(AliasDisk(<<St("import_from", "{ foo }", "@/a")>>), None, c, DefaultCli) :
        c \in ConfigSets \cup LinkedConfigSets}

\* fs::canonicalize(config_path).unwrap_or_else(|_| config_path.to_path_buf())
canonical_config(config_path) == UnwrapOr(Canonicalize(config_path), config_path)

\* An early return that does not consult the visiting set.
returns_when_missing(canonical, visited) == ~Exists(canonical)

\* if !canonical.exists() || !visiting.insert(canonical.clone()) { return Ok(()) }
returns_at_once(canonical, visited) == ~Exists(canonical) \/ canonical \in visited

\* The call of discover_related_tsconfigs that has read its configuration.
CallReading(canonical) ==
    [config_dir |-> UnwrapOr(Parent(canonical), "."),
     links |-> ConfigLinks(ReadConfig(canonical))]

\* discover_related_tsconfigs(config_path, out, visiting) up to its first
\* recursive call, below the calls in stack.
Enter(canonical, stack, visited) ==
    \/ /\ returns_at_once(canonical, visited)
       /\ calls' = stack
       /\ visiting' = visited
       /\ config_paths' = config_paths
    \/ /\ ~returns_at_once(canonical, visited)
       /\ ReadConfig(canonical).t = "invalid"
       /\ config_paths' = config_paths \cup {canonical}
       /\ visiting' = visited \cup {canonical}
       /\ calls' = stack
    \/ /\ ~returns_at_once(canonical, visited)
       /\ ReadConfig(canonical).t # "invalid"
       /\ config_paths' = config_paths \cup {canonical}
       /\ visiting' = visited \cup {canonical}
       /\ calls' = Append(stack, CallReading(canonical))

\* for seed_name in [..] { if seed.exists() { discover_related_tsconfigs(&seed, .., &mut HashSet::new()) } }
DiscoverSeed ==
    /\ seed_at \in DOMAIN SeedConfigNames
    /\ calls = <<>>
    /\ seed_at' = seed_at + 1
    /\ \/ /\ Exists(Join(Root, SeedConfigNames[seed_at]))
          /\ Enter(canonical_config(Join(Root, SeedConfigNames[seed_at])), <<>>, {})
       \/ /\ ~Exists(Join(Root, SeedConfigNames[seed_at]))
          /\ UNCHANGED <<calls, config_paths, visiting>>
    /\ UNCHANGED <<disk, manifest, configs, cli, terminal, pc, scan_vars, warnings,
                   graph_vars, arbiter_vars, unused_dependencies, finding_vars,
                   export_vars, reports>>

\* The innermost call with its first link taken off.
Advanced(stack) ==
    [stack EXCEPT ![Len(stack)].links = Tail(@)]

\* The file the next link of the innermost call names, if there is one.
NextLinkTarget(stack) ==
    resolve_tsconfig_reference_path(stack[Len(stack)].config_dir,
                                    Head(stack[Len(stack)].links))

\* The innermost call follows its next link: `extends`, then each of
\* `references`.
FollowLink ==
    /\ calls # <<>>
    /\ calls[Len(calls)].links # <<>>
    /\ \/ /\ NextLinkTarget(calls) = None
          /\ calls' = Advanced(calls)
          /\ UNCHANGED <<config_paths, visiting>>
       \/ /\ NextLinkTarget(calls) # None
          /\ Enter(canonical_config(NextLinkTarget(calls)[1]), Advanced(calls), visiting)
    /\ UNCHANGED <<seed_at, disk, manifest, configs, cli, terminal, pc, scan_vars,
                   warnings, graph_vars, arbiter_vars, unused_dependencies,
                   finding_vars, export_vars, reports>>

\* Ok(()) at the end of discover_related_tsconfigs
ReturnFromCall ==
    /\ calls # <<>>
    /\ calls[Len(calls)].links = <<>>
    /\ calls' = SubSeq(calls, 1, Len(calls) - 1)
    /\ UNCHANGED <<seed_at, config_paths, visiting, disk, manifest, configs, cli,
                   terminal, pc, scan_vars, warnings, graph_vars, arbiter_vars,
                   unused_dependencies, finding_vars, export_vars, reports>>

\* for config_path in config_paths { apply_compiler_options_from_config(..) }
\* and the rest of build_resolver.
ApplyConfigs ==
    /\ seed_at = Len(SeedConfigNames) + 1
    /\ calls = <<>>
    /\ seed_at' = seed_at + 1
    /\ resolver' = resolver_of(Root, collect_source_files(Root), SortPaths(config_paths))
    /\ UNCHANGED <<calls, config_paths, visiting, disk, manifest, configs, cli,
                   terminal, pc, files, assets, modules, warnings, graph_vars,
                   arbiter_vars, unused_dependencies, finding_vars, export_vars,
                   reports>>

DiscoveryInit ==
    /\ \E p \in DiscoveryProjects : Start(p)
    /\ FreshRun
    /\ reports = <<>>
    /\ TerminalClosed
    /\ seed_at = 1
    /\ calls = <<>>
    /\ config_paths = {}
    /\ visiting = {}

DiscoveryNext ==
    \/ DiscoverSeed
    \/ FollowLink
    \/ ReturnFromCall
    \/ ApplyConfigs

\* ENABLED <<DiscoveryNext>>_<<seed_at, calls>> written out: the guards of the
\* four steps, each of which is defined whatever the file system holds (a
\* call in progress either follows its next link or returns).
DiscoveryCanStep ==
    \/ seed_at \in DOMAIN SeedConfigNames /\ calls = <<>>
    \/ calls # <<>>
    \/ seed_at = Len(SeedConfigNames) + 1 /\ calls = <<>>

\* build_resolver runs on one thread: whatever step it can take, it takes.
\* This is weak fairness of DiscoveryNext; for the steps that read the file
\* system the enabling condition is the one written out above.
DiscoverySpec ==
    /\ DiscoveryInit
    /\ [][DiscoveryNext]_vars
    /\ WF_<<seed_at, calls>>(ReturnFromCall)
    /\ \/ []<>(~DiscoveryCanStep)
       \/ []<><<DiscoveryNext>>_<<seed_at, calls>>

(***************************************************************************)
(* The properties of the analyzer.                                          *)
(***************************************************************************)
\* reachable_files has returned in the current invocation.
ReachabilityReturned == pc \in {"arbiter", "deps", "gate", "exports", "report", "done"}

\* The unused dependencies have been computed in the current invocation.
DependenciesComputed == pc \in {"gate", "exports", "report", "done"}

\* The report of the invocation that has just completed.
LastReport == reports[Len(reports)]

\* The identifier tokens of a source file.
TokensOf(file) == IdentTokensFrom(ReadSource(file), 1)

\* The import records of the reachable files, each with its file.
ReachableImports ==
    UNION {{[file |-> f, import |-> modules[f].imports[i]] : i \in DOMAIN modules[f].imports} :
              f \in reachable \cap DOMAIN modules}

\* C1. Reachability closure: once reachable_files has returned, every entry
\* is in the reachable set, and every import record of a reachable file
\* (side-effect and re-export records included) whose specifier
\* resolve_specifier resolves has its target in the reachable set.
C1_ReachabilityClosure ==
    ReachabilityReturned =>
        /\ Range(entries) \subseteq reachable
        /\ \A x \in ReachableImports :
               LET target == resolve_specifier(resolver, x.file, x.import.specifier)
               IN target \notin {None, Panic} => target[1] \in reachable

\* A file that is no entry is reachable only through a side-effect import
\* or a re-export of a reachable file.
C1_Witness ==
    /\ pc = "arbiter"
    /\ \E x \in ReachableImports :
           /\ x.import.side_effect_only \/ x.import.is_reexport
           /\ resolve_specifier(resolver, x.file, x.import.specifier) \notin {None, Panic}
           /\ resolve_specifier(resolver, x.file, x.import.specifier)[1]
                  \in reachable \ Range(entries)
           /\ \A y \in ReachableImports :
                  (~y.import.side_effect_only /\ ~y.import.is_reexport)
                      => resolve_specifier(resolver, y.file, y.import.specifier)
                             # resolve_specifier(resolver, x.file, x.import.specifier)

\* C2. Confidence gate: a report made with an unresolved local import on
\* record and without include_low_confidence has empty unused_files,
\* unused_assets and unused_exports and omitted_risky_findings set, and its
\* unused_dependencies are what the dependency check yields for the
\* reachable files regardless of the gate.
C2_ConfidenceGate ==
    (pc = "done" /\ unresolved # {} /\ ~cli.include_low_confidence) =>
        /\ LastReport.unused_files = <<>>
        /\ LastReport.unused_assets = <<>>
        /\ LastReport.unused_exports = <<>>
        /\ LastReport.summary.omitted_risky_findings
        /\ ~LastReport.summary.high_confidence_graph
        /\ LastReport.unused_dependencies =
               UnusedDependencies(collect_declared_dependencies.v,
                                  collect_used_packages(reachable, modules, resolver),
                                  cli.include_non_prod_deps)

\* The gate is closed on a project that has an unreachable file to report
\* and an unused dependency, which is reported.
C2_Witness ==
    /\ pc = "done"
    /\ unresolved # {}
    /\ ~cli.include_low_confidence
    /\ UnusedFiles(files, reachable, Root) # <<>>
    /\ LastReport.unused_dependencies # <<>>

\* The source files that a report names by the display path `name'.
FilesDisplayed(name) == {f \in files : relative_display(Root, f) = name}

\* C3 as stated. Export suppression soundness: for every entry (F, e) of
\* the reported unused_exports with e different from "default", the name e
\* is an identifier token of no project source file other than F, reachable
\* or not.
C3_ExportSuppressionSoundness ==
    pc = "done" =>
        \A i \in DOMAIN LastReport.unused_exports :
            LET finding == LastReport.unused_exports[i]
            IN finding.export # "default" =>
                   /\ FilesDisplayed(finding.file) # {}
                   /\ \A f \in FilesDisplayed(finding.file) :
                          \A other \in files \ {f} : finding.export \notin TokensOf(other)

\* The names a manifest section declares.
DeclaredIn(section) ==
    IF manifest = None THEN {} ELSE Range(JObjectKeys(from_str(manifest[1]), section))

\* The names the manifest declares in any of its four sections.
DeclaredNames ==
    DeclaredIn("dependencies") \cup DeclaredIn("devDependencies")
    \cup DeclaredIn("peerDependencies") \cup DeclaredIn("optionalDependencies")

\* The package a specifier names: its first segment, or its first two
\* segments when it starts with '@'.
PackageOf(specifier) ==
    LET segments == Split(specifier, "/")
        count == IF Char(specifier, 1) = "@" THEN 2 ELSE 1
    IN JoinStr(SubSeq(segments, 1, IF Len(segments) < count THEN Len(segments) ELSE count),
               "/")

\* The packages imported by the reachable files: the package names of the
\* imports that do not resolve locally and look like package specifiers.
ImportedPackages ==
    {PackageOf(normalize_specifier(x.import.specifier)) :
        x \in {y \in ReachableImports :
                  /\ resolve_specifier(resolver, y.file, y.import.specifier) = None
                  /\ looks_like_package_specifier(normalize_specifier(y.import.specifier))}}

\* C4. Dependency attribution soundness: every name in unused_dependencies
\* is declared in the manifest, is of a requested kind (production unless
\* include_non_prod_deps is set), and is not the package name of any import
\* of a reachable file that fails to resolve locally and looks like a
\* package specifier.
C4_DependencyAttributionSoundness ==
    DependenciesComputed =>
        \A i \in DOMAIN unused_dependencies :
            /\ unused_dependencies[i] \in DeclaredNames
            /\ cli.include_non_prod_deps
                   \/ unused_dependencies[i] \in DeclaredIn("dependencies")
            /\ unused_dependencies[i] \notin ImportedPackages

\* A scoped package and a plain package are imported through sub-paths and
\* are not listed, while another declared dependency is.
C4_Witness ==
    /\ pc = "done"
    /\ "@scope/pkg" \in ImportedPackages \cap DeclaredNames
    /\ "lodash" \in ImportedPackages \cap DeclaredNames
    /\ LastReport.unused_dependencies # <<>>

\* The classification of a declared name: that of the first section, in the
\* order dependencies, devDependencies, peerDependencies,
\* optionalDependencies, that declares it.
FirstClassification(name) ==
    IF name \in DeclaredIn("dependencies") THEN "Prod"
    ELSE IF name \in DeclaredIn("devDependencies") THEN "Dev"
    ELSE IF name \in DeclaredIn("peerDependencies") THEN "Peer"
    ELSE "Optional"

\* C5. Dependency kind selection: the declared dependencies carry the first
\* classification of each name; unused_dependencies lists exactly the
\* declared names that are not imported, do not begin with "@types/", and
\* are classified Prod, or of any kind when include_non_prod_deps is set.
C5_DependencyKindSelection ==
    DependenciesComputed =>
        /\ collect_declared_dependencies =
               Ok([name \in DeclaredNames |-> FirstClassification(name)])
        /\ \A i \in DOMAIN unused_dependencies :
               ~StartsWith(unused_dependencies[i], "@types/")
        /\ Range(unused_dependencies) =
               {name \in DeclaredNames :
                   /\ cli.include_non_prod_deps \/ FirstClassification(name) = "Prod"
                   /\ ~StartsWith(name, "@types/")
                   /\ name \notin collect_used_packages(reachable, modules, resolver)}

\* Under the default flags a name declared in dependencies and again in
\* devDependencies is listed, a name declared only outside dependencies is
\* not, and a declared "@types/" name is not.
C5_Witness ==
    /\ pc = "done"
    /\ ~cli.include_non_prod_deps
    /\ \E name \in Range(LastReport.unused_dependencies) :
           name \in DeclaredIn("dependencies") \cap DeclaredIn("devDependencies")
    /\ \E name \in DeclaredNames \ DeclaredIn("dependencies") :
           /\ ~StartsWith(name, "@types/")
           /\ name \notin collect_used_packages(reachable, modules, resolver)
    /\ \E name \in DeclaredNames : StartsWith(name, "@types/")

\* The display paths of the asset set, which is filtered by the asset roots.
AssetDisplays == {relative_display(Root, a) : a \in assets}

\* C6. Usage disjointness: in every report no asset is in both used_assets
\* and unused_assets, and every path of either list is a member of the asset
\* set filtered by the asset roots.
C6_UsageDisjointness ==
    pc = "done" =>
        /\ Range(LastReport.used_assets) \cap Range(LastReport.unused_assets) = {}
        /\ Range(LastReport.used_assets) \subseteq AssetDisplays
        /\ Range(LastReport.unused_assets) \subseteq AssetDisplays

\* Under asset roots that leave an asset out, a report lists a used and an
\* unused asset while a source file imports the asset left out.
C6_Witness ==
    /\ pc = "done"
    /\ cli.asset_roots # <<>>
    /\ LastReport.used_assets # <<>>
    /\ LastReport.unused_assets # <<>>
    /\ \E f \in files : \E text \in collect_string_literals({f}) :
           resolve_asset_specifier(Root, f, text, DiskFiles)
               \notin {None} \cup {Some(a) : a \in assets}

\* The files that some import of a reachable file resolves to.
ImportedFiles ==
    {target[1] :
        target \in {resolve_specifier(resolver, x.file, x.import.specifier) :
                       x \in ReachableImports} \ {None, Panic}}

\* C7. Confidence monotonicity: when no unresolved local import is recorded,
\* no file listed in unused_files is reachable or the resolved target of an
\* import of a reachable file.
C7_ConfidenceMonotonicity ==
    (pc = "done" /\ unresolved = {}) =>
        \A i \in DOMAIN LastReport.unused_files :
            /\ FilesDisplayed(LastReport.unused_files[i]) # {}
            /\ FilesDisplayed(LastReport.unused_files[i]) \cap reachable = {}
            /\ FilesDisplayed(LastReport.unused_files[i]) \cap ImportedFiles = {}

\* With every local import resolved, a report lists an unused file while
\* the reachable files import other files.
C7_Witness ==
    /\ pc = "done"
    /\ unresolved = {}
    /\ LastReport.unused_files # <<>>
    /\ ImportedFiles \ Range(entries) # {}

\* Two lists with the same elements, each the same number of times.
SameOnceSorted(s, t) ==
    /\ Len(s) = Len(t)
    /\ \A x \in Range(s) :
           Cardinality({i \in DOMAIN s : s[i] = x}) = Cardinality({i \in DOMAIN t : t[i] = x})

\* C8. Idempotence: the reports of the runs on the same tree with the same
\* flags have the same summary and, once each list is sorted, the same
\* entries, warnings, unused_files, used_assets, unused_assets,
\* unused_dependencies and unused_exports.
C8_Idempotence ==
    \A i \in DOMAIN reports : \A j \in DOMAIN reports :
        /\ reports[i].summary = reports[j].summary
        /\ SameOnceSorted(reports[i].entries, reports[j].entries)
        /\ SameOnceSorted(reports[i].warnings, reports[j].warnings)
        /\ SameOnceSorted(reports[i].unused_files, reports[j].unused_files)
        /\ SameOnceSorted(reports[i].used_assets, reports[j].used_assets)
        /\ SameOnceSorted(reports[i].unused_assets, reports[j].unused_assets)
        /\ SameOnceSorted(reports[i].unused_dependencies, reports[j].unused_dependencies)
        /\ SameOnceSorted(reports[i].unused_exports, reports[j].unused_exports)

\* Two runs have reported, visiting the modules in different orders: their
\* warnings come in different orders, and exports are reported unused.
C8_Witness ==
    /\ Len(reports) = 2
    /\ reports[1].warnings # reports[2].warnings
    /\ reports[1].unused_exports # <<>>

\* The concrete segments substituted for the wildcard of an alias key.
Segments == {"a", "a.ts", "gone", "q#1", ""}

\* A text with its wildcard replaced by a segment.
Substituted(text, segment) == Replace(text, "*", segment)

\* The known source file at base_dir joined with the target of a rule in
\* which the wildcard is replaced by a segment, if there is one.
AliasedFile(rule, segment) ==
    resolve_candidate_path(Join(rule.base_dir, Substituted(rule.target, segment)), files)

\* An alias key matches a specifier: its text before the wildcard starts the
\* specifier and its text after the wildcard ends it; a key without
\* wildcard matches the specifier equal to it.
KeyMatches(key, specifier) ==
    IF Contains(key, "*")
    THEN /\ StartsWith(specifier, SplitOnce(key, "*")[1])
         /\ EndsWith(specifier, SplitOnce(key, "*")[2])
    ELSE key = specifier

\* A key with at most one wildcard.
AtMostOneWildcard(key) ==
    Contains(key, "*") => ~Contains(SplitOnce(key, "*")[2], "*")

\* The segment a rule puts into its target: the one substituted in the key,
\* or the empty one when the key has no wildcard.
TargetSegment(rule, segment) == IF Contains(rule.key, "*") THEN segment ELSE ""

\* A specifier that resolve_specifier hands to the alias rules as it is: not
\* empty, unchanged by normalization, neither relative nor rooted at "/".
ReachesAliasRules(specifier) ==
    /\ specifier # ""
    /\ normalize_specifier(specifier) = specifier
    /\ ~is_relative_specifier(specifier)
    /\ ~StartsWith(specifier, "/")

\* What alias rule i answers for the specifier: None when its key does not
\* match or its target names no known source file.
RuleAnswer(i, normalized) ==
    alias_rule_outcome(resolver.alias_rules[i],
                       match_alias(resolver.alias_rules[i].key, normalized),
                       resolver.files)

\* The rules whose key matches the specifier.
MatchingRules(normalized) ==
    {i \in DOMAIN resolver.alias_rules :
        KeyMatches(resolver.alias_rules[i].key, normalized)}

\* The rules that answer the specifier with something.
AnsweringRules(normalized) ==
    {i \in DOMAIN resolver.alias_rules : RuleAnswer(i, normalized) # None}

\* The state in which build_resolver has just returned.
ResolverBuilt == pc = "entries"

\* C9 as stated. Alias round-trip for every rule of the list: for every
\* alias rule and every segment S, the key with its wildcard replaced by S
\* resolves to the known source file at base_dir joined with the target with
\* its wildcard replaced by S, whenever that file exists.
C9_AliasRoundTripEveryRule ==
    ResolverBuilt =>
        \A i \in DOMAIN resolver.alias_rules : \A segment \in Segments :
            \A from_file \in files :
                AliasedFile(resolver.alias_rules[i], segment) # None =>
                    resolve_specifier(resolver, from_file,
                                      Substituted(resolver.alias_rules[i].key, segment))
                        = AliasedFile(resolver.alias_rules[i], segment)

\* C9. Alias round-trip for every rule that no earlier rule forestalls: for
\* every segment S and every alias rule with at most one wildcard in its key,
\* the key with its wildcard replaced by S, when it is not empty, unchanged
\* by normalization, not relative and not rooted at "/", resolves to the
\* known source file at base_dir joined with the target with its wildcard
\* replaced by S (by the empty string when the key has no wildcard),
\* whenever that file exists and no earlier rule of the list answers the
\* specifier or panics on it.  Earlier rules whose keys match the specifier
\* while their targets name no known source file do not stand in the way.
C9_AliasRoundTripUnlessForestalled ==
    ResolverBuilt =>
        \A i \in DOMAIN resolver.alias_rules : \A segment \in Segments :
            \A from_file \in files :
                LET rule == resolver.alias_rules[i]
                    specifier == Substituted(rule.key, segment)
                    expected == AliasedFile(rule, TargetSegment(rule, segment))
                IN (/\ AtMostOneWildcard(rule.key)
                    /\ ReachesAliasRules(specifier)
                    /\ \A j \in 1..(i - 1) : RuleAnswer(j, specifier) = None
                    /\ expected # None)
                       => resolve_specifier(resolver, from_file, specifier) = expected

\* A rule is preceded by a rule whose key matches a substituted specifier and
\* whose target names no known source file, no earlier rule answers, and the
\* rule's substituted target is a known source file.
C9_Witness ==
    /\ ResolverBuilt
    /\ \E i \in DOMAIN resolver.alias_rules : \E segment \in Segments \ {""} :
           /\ Contains(resolver.alias_rules[i].target, "*")
           /\ AtMostOneWildcard(resolver.alias_rules[i].key)
           /\ ReachesAliasRules(Substituted(resolver.alias_rules[i].key, segment))
           /\ \E j \in 1..(i - 1) :
                  KeyMatches(resolver.alias_rules[j].key,
                             Substituted(resolver.alias_rules[i].key, segment))
           /\ \A j \in 1..(i - 1) :
                  RuleAnswer(j, Substituted(resolver.alias_rules[i].key, segment)) = None
           /\ AliasedFile(resolver.alias_rules[i], segment) # None

\* discover_entries has returned in the current invocation.
EntriesDiscovered == pc \notin {"scan", "entries"}

\* C10 as stated. Explicit entry hints are exclusive: when at least one
\* entry hint is supplied, the entries are exactly the hints that resolve to
\* known source files, also when none of them resolves.
C10_EntryHintsExclusive ==
    (EntriesDiscovered /\ cli.entries # <<>>) =>
        Range(entries) = ResolvedCandidates(Root, files, Range(cli.entries))

\* The findings were emitted by the invocation that has just completed.
FindingsEmitted ==
    pc = "done" /\ GateOpen(high_confidence_graph, cli.include_low_confidence)

\* C11 as stated. Asset usage is judged from reachable sources: when
\* findings are emitted, every asset of the asset set that is not public
\* and that no reachable source file references by string literal, import
\* specifier or glob pattern is reported in unused_assets.
C11_AssetsJudgedFromReachable ==
    FindingsEmitted =>
        \A asset \in assets \ collect_used_assets(Root, reachable, assets) :
            ~is_public_asset(asset)
                => relative_display(Root, asset) \in Range(LastReport.unused_assets)

\* The name of a file, in lower case.
LowerName(file) == to_ascii_lowercase(PathComponents(file)[Len(PathComponents(file))])

\* A test-like file: its name contains .test. or .spec., or it lies under a
\* directory __tests__.
TestLike(file) ==
    \/ Contains(PathComponents(file)[Len(PathComponents(file))], ".test.")
    \/ Contains(PathComponents(file)[Len(PathComponents(file))], ".spec.")
    \/ \E i \in 1..(Len(PathComponents(file)) - 1) : PathComponents(file)[i] = "__tests__"

\* A declaration stub: *.d.ts.
DeclarationStub(file) == EndsWith(PathComponents(file)[Len(PathComponents(file))], ".d.ts")

\* A recognized configuration file: its name contains "config" in any case,
\* or starts with .eslintrc, .prettierrc, .stylelintrc or .babelrc.
RecognizedConfiguration(file) ==
    \/ Contains(LowerName(file), "config")
    \/ \E prefix \in {".eslintrc", ".prettierrc", ".stylelintrc", ".babelrc"} :
           StartsWith(PathComponents(file)[Len(PathComponents(file))], prefix)

\* C12. In every report that emits findings, unused_files names no
\* test-like file, no declaration stub and no recognized configuration
\* file, and names every other known source file that is not reachable.
C12_UnusedFilesFilter ==
    FindingsEmitted =>
        /\ \A i \in DOMAIN LastReport.unused_files :
               /\ FilesDisplayed(LastReport.unused_files[i]) # {}
               /\ \A f \in FilesDisplayed(LastReport.unused_files[i]) :
                      /\ f \notin reachable
                      /\ ~TestLike(f)
                      /\ ~DeclarationStub(f)
                      /\ ~RecognizedConfiguration(f)
        /\ \A f \in files \ reachable :
               (~TestLike(f) /\ ~DeclarationStub(f) /\ ~RecognizedConfiguration(f))
                   => relative_display(Root, f) \in Range(LastReport.unused_files)

\* Findings are emitted while a test-like file, a configuration file that
\* is in no list of known names and a plain file are all unreachable.
C12_Witness ==
    /\ FindingsEmitted
    /\ LastReport.unused_files # <<>>
    /\ \E f \in files \ reachable : TestLike(f)
    /\ \E f \in files \ reachable :
           RecognizedConfiguration(f) /\ LowerName(f) \notin KnownConfigFiles

\* The raw candidates of the relative imports of the source files.
RelativeCandidates ==
    {Join(Parent(x[1])[1], normalize_specifier(x[2])) :
        x \in {y \in UNION {{<<f, modules[f].imports[i].specifier>> :
                                i \in DOMAIN modules[f].imports} : f \in DOMAIN modules} :
                  is_relative_specifier(normalize_specifier(y[2]))}}

\* The candidates of a raw candidate without one of them.
CandidatesWithout(raw_candidate, path) ==
    SelectSeq(ExpansionCandidates(raw_candidate, JS_TS_EXTENSIONS),
              LAMBDA candidate : candidate # path)

\* C13 as stated. Canonicalization failure is not fatal: when a candidate
\* passes the existence check and vanishes before it is canonicalized,
\* resolve_candidate_path treats it as a non-member, still tries the
\* remaining candidates and returns no error.
C13_CanonicalizationFailureNotFatal ==
    ResolverBuilt =>
        \A raw_candidate \in RelativeCandidates :
            \A path \in Range(ExpansionCandidates(raw_candidate, JS_TS_EXTENSIONS)) :
                Exists(path) =>
                    /\ resolve_candidate_path_vanishing(raw_candidate, files, {path})
                           # IoError
                    /\ resolve_candidate_path_vanishing(raw_candidate, files, {path})
                           = FirstMember(CandidatesWithout(raw_candidate, path), files)

\* The files of the project, the trash apart.
ProjectFiles(fs) == {f \in DOMAIN fs : ~StartsWith(f, TrashRoot \o "/")}

\* The files the selected rows stand for.
SelectedFiles ==
    {Root \o "/" \o delete.items[idx + 1].rel_path :
         idx \in {i \in delete.selected : i < Len(delete.items)}}

DeletePending == running /\ delete.confirm_delete

DeletePendingNext == running' /\ delete'.confirm_delete

\* C14: deletion requires confirmation.  In every step of the interface: a
\* file leaves the project only by 'y' while a delete confirmation is pending,
\* and then it is the file of a row that is selected; a confirmation becomes
\* pending only by 'x' with a non-empty selection; 'n' or Esc ends it and
\* moves no file; and while it stays pending the selection and the files stay
\* as they are.
C14_DeletionRequiresConfirmation ==
    [][/\ ProjectFiles(disk) \ ProjectFiles(disk') # {}
          => /\ DeletePending
             /\ ConfirmDeleteYes
             /\ ProjectFiles(disk) \ ProjectFiles(disk') \subseteq SelectedFiles
       /\ ~DeletePending /\ DeletePendingNext
          => AskDelete /\ delete.selected # {} /\ delete'.selected = delete.selected
       /\ ConfirmDeleteNo => ~DeletePendingNext /\ disk' = disk
       /\ DeletePending /\ DeletePendingNext
          => delete'.selected = delete.selected /\ disk' = disk]_vars

\* Both selected files were moved to the trash by one confirmed batch.
C14_Witness ==
    /\ running
    /\ ~delete.confirm_delete
    /\ Len(delete.undo_stack) = 1
    /\ ProjectFiles(disk) = {"/r/src/index.ts"}
    /\ {SessionPath("batch-1") \o "/d.ts", SessionPath("batch-1") \o "/d/b.svg"}
       \subseteq DOMAIN disk

\* The candidate of an undo entry is an Active row after the step.
ActiveAgain(entry) ==
    \E i \in DOMAIN delete'.items :
        /\ delete'.items[i].rel_path = entry.candidate.rel_path
        /\ delete'.items[i].kind = entry.candidate.kind
        /\ delete'.items[i].state = "Active"

\* The entry's file is in the trash before the step and back at its original
\* path, with its content, after it.
MovedBack(entry) ==
    /\ entry.trash_abs \in DOMAIN disk
    /\ entry.trash_abs \notin DOMAIN disk'
    /\ entry.original_abs \in DOMAIN disk'
    /\ disk'[entry.original_abs] = disk[entry.trash_abs]

\* C15 as stated: undo round-trip.  A confirmed deletion pushes its batch,
\* the files it moved, on the undo stack.  'u' takes the batch pushed last:
\* every file of it whose original path is vacant moves from the trash back
\* to that path and its candidate is Active again, and no other file moves;
\* the batches below stay for the next 'u'.  'u' with an empty undo stack
\* changes no file and no candidate.
C15_UndoRoundTrip ==
    [][/\ ConfirmDeleteYes
          => \/ /\ ProjectFiles(disk') = ProjectFiles(disk)
                /\ running'
                /\ delete'.undo_stack = delete.undo_stack
             \/ /\ running'
                /\ Len(delete'.undo_stack) = Len(delete.undo_stack) + 1
                /\ SubSeq(delete'.undo_stack, 1, Len(delete.undo_stack)) = delete.undo_stack
                /\ LET batch == delete'.undo_stack[Len(delete'.undo_stack)]
                   IN /\ {batch[i].original_abs : i \in DOMAIN batch}
                         = ProjectFiles(disk) \ ProjectFiles(disk')
                      /\ \A i \in DOMAIN batch :
                             /\ batch[i].trash_abs \in DOMAIN disk'
                             /\ disk'[batch[i].trash_abs] = disk[batch[i].original_abs]
       /\ Browsing /\ delete.undo_stack = <<>> /\ Undo
          => disk' = disk /\ running' /\ delete'.items = delete.items
       /\ Browsing /\ delete.undo_stack # <<>> /\ Undo
          => LET batch == delete.undo_stack[Len(delete.undo_stack)]
                 vacant == {i \in DOMAIN batch :
                               ~PathExists(disk, folders, batch[i].original_abs)}
             IN /\ running'
                /\ delete'.undo_stack
                   = SubSeq(delete.undo_stack, 1, Len(delete.undo_stack) - 1)
                /\ \A i \in vacant : MovedBack(batch[i]) /\ ActiveAgain(batch[i])
                /\ \A f \in DOMAIN disk \ {batch[i].trash_abs : i \in vacant} :
                       f \in DOMAIN disk' /\ disk'[f] = disk[f]
                /\ DOMAIN disk' \ DOMAIN disk = {batch[i].original_abs : i \in vacant}]_vars

\* The files in the trash.
TrashedFiles(fs) == WalkFiles(fs, SessionsRoot)

\* The path a trashed file was moved away from.
OriginalOf(trashed) ==
    Root \o "/"
    \o From(trashed, Len(SessionPath(Split(From(trashed, Len(SessionsRoot) + 2), "/")[1])) + 2)

\* C16: failed restores stay recoverable.  In every step other than a
\* confirmed empty-trash: a file in the trash stays where it is, or is back at
\* its original path with its content; a project file stays where it is, with
\* its content, or is in a trash session under its path; and every file in the
\* trash lies in directories that are still there, so that a session directory
\* that goes held no file any more.  A confirmed empty-trash leaves the project
\* files alone.
C16_FailedRestoresStayRecoverable ==
    [][\/ /\ running /\ ConfirmingEmptyTrash /\ ConfirmEmptyTrashYes
          /\ \A f \in ProjectFiles(disk) : f \in DOMAIN disk' /\ disk'[f] = disk[f]
       \/ /\ \A t \in TrashedFiles(disk) :
                 \/ t \in DOMAIN disk' /\ disk'[t] = disk[t]
                 \/ /\ OriginalOf(t) \in DOMAIN disk' \ DOMAIN disk
                    /\ disk'[OriginalOf(t)] = disk[t]
          /\ \A f \in ProjectFiles(disk) :
                 \/ f \in DOMAIN disk' /\ disk'[f] = disk[f]
                 \/ \E t \in TrashedFiles(disk') \ TrashedFiles(disk) :
                        OriginalOf(t) = f /\ disk'[t] = disk[f]
          /\ \A t \in TrashedFiles(disk') : AncestorDirs(t) \subseteq DOMAIN folders']_vars

\* The source files a finding's display path names.
FilesNamed(rel) == {f \in files : relative_display(Root, f) = rel}

\* A module the export findings may speak about.
Eligible(f) ==
    /\ f \in reachable
    /\ f \notin Range(entries)
    /\ ~is_test_like_file(f)
    /\ ~is_declaration_file(f)
    /\ f \notin maybe_used_from_unresolved

\* C17: every (file, export) in unused_exports names a file that is
\* reachable, is not an entry, is not test-like, is not a declaration stub
\* and is not in maybe_used_from_unresolved.
C17_ExportFindingsOnlyForEligible ==
    \A i \in DOMAIN unused_exports :
        /\ FilesNamed(unused_exports[i].file) # {}
        /\ \A f \in FilesNamed(unused_exports[i].file) : Eligible(f)

\* A finished export loop that reported an export while it passed over an
\* entry, a test file that is no entry and a module an unresolved import may
\* refer to, each of which exports a name.
C17_Witness ==
    /\ pc = "report"
    /\ unused_exports # <<>>
    /\ \E f \in reachable \cap Range(entries) : modules[f].exports # {}
    /\ \E f \in reachable \ Range(entries) :
           is_test_like_file(f) /\ modules[f].exports # {}
    /\ \E f \in reachable \cap maybe_used_from_unresolved :
           /\ f \notin Range(entries)
           /\ modules[f].exports # {}

\* The import records of the reachable modules that resolve to module m.
RecordsResolvingTo(m) ==
    UNION {{modules[f].imports[i] :
               i \in {j \in DOMAIN modules[f].imports :
                         resolve_specifier(resolver, f, modules[f].imports[j].specifier)
                             = Some(m)}} :
              f \in reachable \cap DOMAIN modules}

\* A namespace import, a require(), a dynamic import() and an `export * from`
\* are the records with uses_namespace; a re-export is a record with
\* is_reexport.
WhollyConsumed(m) ==
    \E record \in RecordsResolvingTo(m) : record.uses_namespace \/ record.is_reexport

\* The exports unused_exports reports for module m.
ReportedExports(m) ==
    {unused_exports[i].export :
        i \in {j \in DOMAIN unused_exports :
                  unused_exports[j].file = relative_display(Root, m)}}

\* An export of m that the loop would report if m were not wholly consumed:
\* no file but m holds its name, and m is eligible.
WouldBeReported(m) ==
    /\ Eligible(m)
    /\ \E e \in modules[m].exports :
           e \in DOMAIN global_token_file_counts /\ global_token_file_counts[e] = 1

\* C18: whole-module consumption.  If a reachable module has an import
\* record resolving to M that is a namespace import, a require(), a dynamic
\* import(), an `export * from` or any re-export, then no export of M, named
\* or default, appears in unused_exports.
C18_WholeModuleConsumption ==
    \A i \in DOMAIN unused_exports :
        \A m \in FilesNamed(unused_exports[i].file) : ~WhollyConsumed(m)

\* A finished export loop that passed over a module a plain re-export list
\* names, although the module is eligible, has a default export and exports a
\* name no other file holds.
C18_Witness ==
    /\ pc = "report"
    /\ GateOpen(high_confidence_graph, cli.include_low_confidence)
    /\ \E m \in DOMAIN modules :
           /\ \E record \in RecordsResolvingTo(m) :
                  record.is_reexport /\ ~record.uses_namespace
           /\ \A record \in RecordsResolvingTo(m) : ~record.uses_namespace
           /\ WouldBeReported(m)
           /\ modules[m].has_default_export
           /\ ReportedExports(m) = {}

\* Export e of module m is imported by name by a reachable import that is no
\* re-export.
ImportedByName(m, e) ==
    \E record \in RecordsResolvingTo(m) : ~record.is_reexport /\ e \in record.names

\* The name occurs as an identifier token in a source file other than m.
HeldByOtherFile(m, e) ==
    \E f \in files \ {m} : e \in IdentTokensFrom(ReadSource(f), 1)

\* The exports of m the report owes: m is eligible and not wholly consumed,
\* the export is not imported by name and no other file holds its name.
OwedExports(m) ==
    IF Eligible(m) /\ ~WhollyConsumed(m)
    THEN {e \in modules[m].exports : ~ImportedByName(m, e) /\ ~HeldByOtherFile(m, e)}
    ELSE {}

\* The positions of unused_exports that hold the finding (m, e).
PositionsOf(m, e) ==
    {i \in DOMAIN unused_exports :
        unused_exports[i] = [file |-> relative_display(Root, m), export |-> e]}

\* unused_exports ascends by file, then by export name.
ExportsAscending ==
    \A i, j \in DOMAIN unused_exports :
        i < j =>
            \/ StrLess(unused_exports[i].file, unused_exports[j].file)
            \/ /\ unused_exports[i].file = unused_exports[j].file
               /\ StrLess(unused_exports[i].export, unused_exports[j].export)

\* C19: completeness of unused-export reporting.  When findings are emitted,
\* every named export of an eligible module that is not wholly consumed,
\* that no reachable non-re-export import imports by name and whose name
\* occurs as a token in no other project file is reported exactly once, and
\* unused_exports is sorted by file, then by export name.
C19_UnusedExportsComplete ==
    (pc \in {"report", "done"} /\ GateOpen(high_confidence_graph, cli.include_low_confidence))
        => /\ \A m \in DOMAIN modules :
                  \A e \in OwedExports(m) : Cardinality(PositionsOf(m, e)) = 1
           /\ ExportsAscending

\* A report with findings for two files, one of them a module with an owed
\* export next to an export that is imported by name.
C19_Witness ==
    /\ pc = "report"
    /\ GateOpen(high_confidence_graph, cli.include_low_confidence)
    /\ \E i, j \in DOMAIN unused_exports : unused_exports[i].file # unused_exports[j].file
    /\ \E m \in DOMAIN modules :
           /\ OwedExports(m) # {}
           /\ \E e \in modules[m].exports : ImportedByName(m, e)
           /\ \E e \in OwedExports(m), d \in OwedExports(m) : e # d

\* "Likely local" as the statement spells it out for the specifier an import
\* is written with: relative, root-absolute, matching an alias key, or not
\* looking like a package.
StatedLikelyLocal(specifier) ==
    \/ is_relative_specifier(specifier)
    \/ StartsWith(specifier, "/")
    \/ \E i \in DOMAIN resolver.alias_rules :
           match_alias(resolver.alias_rules[i].key, specifier) \notin {None, Panic}
    \/ ~looks_like_package_specifier(specifier)

\* The (importing file, specifier) pairs of the reachable modules.
ReachableImportPairs ==
    UNION {{[from_file |-> f, specifier |-> modules[f].imports[i].specifier] :
               i \in DOMAIN modules[f].imports} :
              f \in reachable \cap DOMAIN modules}

\* The pairs the statement wants recorded.
StatedUnresolved ==
    {pair \in ReachableImportPairs :
        /\ StatedLikelyLocal(pair.specifier)
        /\ resolve_specifier(resolver, pair.from_file, pair.specifier) = None
        /\ ~local_specifier_exists(resolver, pair.from_file, pair.specifier)}

\* The arbiter of run has returned.
ArbiterReturned == pc \in {"deps", "gate", "exports", "report", "done"}

\* C20 as stated.  A pair is recorded as unresolved if and only if its file
\* is reachable, its specifier is likely local (relative, root-absolute,
\* matching an alias key or not looking like a package), resolve_specifier
\* returns nothing and local_specifier_exists is false; an import of an
\* existing file never is; and high_confidence_graph is true exactly when no
\* pair is recorded.  The code falls short of it for a specifier that begins
\* with '#': normalize_specifier cuts it at the '#', and
\* is_likely_local_specifier answers false for the empty rest.
C20_UnresolvedArbiter ==
    ArbiterReturned
        => /\ unresolved = StatedUnresolved
           /\ \A pair \in ReachableImportPairs :
                  (/\ is_relative_specifier(pair.specifier)
                   /\ Exists(Join(Parent(pair.from_file)[1], pair.specifier)))
                      => pair \notin unresolved
           /\ high_confidence_graph <=> unresolved = {}

\* The specifiers the modules import, as resolve_specifier sees them.
ImportedSpecifiers ==
    {normalize_specifier(modules[f].imports[i].specifier) :
        <<f, i>> \in UNION {{<<g, j>> : j \in DOMAIN modules[g].imports} :
                              g \in DOMAIN modules}}

\* A specifier that is neither relative nor root-absolute and that no alias
\* key matches.
BareUnaliased(normalized) ==
    /\ normalized # ""
    /\ ~is_relative_specifier(normalized)
    /\ ~StartsWith(normalized, "/")
    /\ \A i \in DOMAIN resolver.alias_rules :
           match_alias(resolver.alias_rules[i].key, normalized) = None

\* The positions of the base directories below which the specifier names a
\* known source file.
AnsweringBaseDirs(normalized) ==
    {i \in DOMAIN resolver.base_dirs :
        resolve_candidate_path(Join(resolver.base_dirs[i], normalized), resolver.files)
            # None}

\* C21 as stated.  A non-relative, non-root-absolute specifier that matches
\* no alias is resolved through the base directories in order: when some
\* base directory holds a known source file for it, resolve_specifier returns
\* the file of the first such base directory.  The code consults the base
\* directories only for a specifier that does not look like a package, which
\* "utils/foo" does.
C21_BaseDirResolution ==
    ResolverBuilt
        => \A normalized \in ImportedSpecifiers :
               (BareUnaliased(normalized) /\ AnsweringBaseDirs(normalized) # {})
                   => resolve_specifier(resolver, "/r/src/index.ts", normalized)
                          = resolve_candidate_path(
                                Join(resolver.base_dirs[SetMin(AnsweringBaseDirs(normalized))],
                                     normalized),
                                resolver.files)

\* The imports of the modules: the importing file with the specifier as
\* resolve_specifier sees it.
NormalizedImports ==
    UNION {{<<f, normalize_specifier(modules[f].imports[i].specifier)>> :
               i \in DOMAIN modules[f].imports} :
              f \in DOMAIN modules}

\* The resolver without its alias rules.
WithoutAliases == [resolver EXCEPT !.alias_rules = <<>>]

\* Relative and root-absolute specifiers never consult the alias rules.
AliasesIgnoredForPaths ==
    \A import \in NormalizedImports :
        (is_relative_specifier(import[2]) \/ StartsWith(import[2], "/"))
            => resolve_specifier(resolver, import[1], import[2])
                   = resolve_specifier(WithoutAliases, import[1], import[2])

\* C22 as stated.  For a specifier that is neither relative nor
\* root-absolute the first alias rule, in rule order, whose key matches
\* decides the result of resolve_specifier; later matching rules and the
\* base directories are not consulted.  Relative and root-absolute
\* specifiers never consult the alias rules.
C22_FirstMatchingRuleDecides ==
    ResolverBuilt
        => /\ \A import \in NormalizedImports :
                  (/\ ReachesAliasRules(import[2])
                   /\ MatchingRules(import[2]) # {})
                      => resolve_specifier(resolver, import[1], import[2])
                             = RuleAnswer(SetMin(MatchingRules(import[2])), import[2])
           /\ AliasesIgnoredForPaths

\* C22.  For a specifier that is neither relative nor root-absolute the
\* first alias rule, in rule order, whose key matches and whose target names
\* a known source file decides the result of resolve_specifier; a rule that
\* matches without resolving is passed over, and when no rule answers, the
\* base directories are consulted for a specifier that does not look like a
\* package.  Relative and root-absolute specifiers never consult the alias
\* rules.
C22_FirstResolvingRuleDecides ==
    ResolverBuilt
        => /\ \A import \in NormalizedImports :
                  ReachesAliasRules(import[2])
                      => resolve_specifier(resolver, import[1], import[2])
                             = IF AnsweringRules(import[2]) # {}
                               THEN RuleAnswer(SetMin(AnsweringRules(import[2])), import[2])
                               ELSE resolve_specifier(WithoutAliases, import[1], import[2])
           /\ AliasesIgnoredForPaths

\* A resolver whose first rule matching an imported specifier names no known
\* source file while a later matching rule does.
C22_Witness ==
    /\ ResolverBuilt
    /\ \E import \in NormalizedImports :
           /\ ReachesAliasRules(import[2])
           /\ MatchingRules(import[2]) # {}
           /\ RuleAnswer(SetMin(MatchingRules(import[2])), import[2]) = None
           /\ \E i \in AnsweringRules(import[2]) :
                  /\ i > SetMin(MatchingRules(import[2]))
                  /\ RuleAnswer(i, import[2]) # Panic
                  /\ resolve_specifier(resolver, import[1], import[2])
                         = RuleAnswer(i, import[2])

\* The raw candidates the imports of the modules hand to
\* resolve_candidate_path: below the importing file's directory for a
\* relative specifier, below the root for a root-absolute one, below every
\* base directory otherwise.
RawCandidates ==
    UNION {IF is_relative_specifier(import[2])
           THEN {Join(Parent(import[1])[1], import[2])}
           ELSE IF StartsWith(import[2], "/")
           THEN {Join(resolver.root, From(import[2], 2))}
           ELSE {Join(resolver.base_dirs[i], import[2]) : i \in DOMAIN resolver.base_dirs} :
              import \in {x \in NormalizedImports : x[2] # ""}}

\* The candidates in the stated order: P alone when it has an extension,
\* else P, P.js .. P.cjs, P/index.js .. P/index.cjs.
StatedExtensions == <<"js", "jsx", "ts", "tsx", "mjs", "cjs">>

StatedCandidates(p) ==
    IF Extension(p) # None THEN <<p>>
    ELSE <<p>>
         \o [i \in 1..6 |-> p \o "." \o StatedExtensions[i]]
         \o [i \in 1..6 |-> p \o "/index." \o StatedExtensions[i]]

\* The positions of the stated candidates that exist and are known source
\* files.
Qualifying(p) ==
    {i \in DOMAIN StatedCandidates(p) :
        /\ Exists(StatedCandidates(p)[i])
        /\ Canonicalize(StatedCandidates(p)[i])[1] \in resolver.files}

\* C23: candidate expansion.  For a raw candidate P with an extension only
\* P is tried; for P without one the candidates are P, P.js, P.jsx, P.ts,
\* P.tsx, P.mjs, P.cjs, then P/index.js .. P/index.cjs; the result is the
\* first candidate that exists and is a known source file, an existing
\* candidate outside the set being skipped; the returned path is always a
\* known source file.
C23_CandidateExpansion ==
    ResolverBuilt
        => \A p \in RawCandidates :
               /\ resolve_candidate_path(p, resolver.files)
                      = IF Qualifying(p) = {} THEN None
                        ELSE Canonicalize(StatedCandidates(p)[SetMin(Qualifying(p))])
               /\ resolve_candidate_path(p, resolver.files) # None
                      => resolve_candidate_path(p, resolver.files)[1] \in resolver.files

\* A resolver that is asked for a directory with an index file (the
\* directory exists, is no source file and is skipped), for a name two
\* source extensions answer, and for an existing file that is no source file.
C23_Witness ==
    /\ ResolverBuilt
    /\ \E p \in RawCandidates :
           /\ Extension(p) = None
           /\ Exists(p)
           /\ Qualifying(p) # {}
           /\ SetMin(Qualifying(p)) > 7
    /\ \E p \in RawCandidates : Cardinality(Qualifying(p)) > 1
    /\ \E p \in RawCandidates :
           Extension(p) # None /\ Exists(p) /\ resolve_candidate_path(p, resolver.files) = None

(***************************************************************************)
(* C24: the order of the alias rules against the order of discovery.        *)
(***************************************************************************)
\* The configuration files in the order discover_related_tsconfigs meets
\* them from one path on: the file itself, then what its `extends` reaches,
\* then what each of its `references` reaches, none twice.
RECURSIVE DiscoveredInOrder(_, _)
RECURSIVE LinksInOrder(_, _, _)
ReferenceInOrder(path, order) ==
    IF path = None THEN order ELSE DiscoveredInOrder(path[1], order)

LinksInOrder(config_dir, links, order) ==
    IF links = <<>> THEN order
    ELSE LinksInOrder(config_dir, Tail(links),
                      ReferenceInOrder(
                          resolve_tsconfig_reference_path(config_dir, Head(links)),
                          order))

CanonicalInOrder(canonical, order) ==
    IF ~Exists(canonical) \/ canonical \in Range(order) THEN order
    ELSE IF ReadConfig(canonical).t = "invalid" THEN Append(order, canonical)
    ELSE LinksInOrder(UnwrapOr(Parent(canonical), "."),
                      ConfigLinks(ReadConfig(canonical)),
                      Append(order, canonical))

DiscoveredInOrder(config_path, order) ==
    CanonicalInOrder(UnwrapOr(Canonicalize(config_path), config_path), order)

\* The discovery order of build_resolver: the seeds in the order of their
\* names, each with what it reaches, a file kept where it is met first.
DiscoveryOrder ==
    dedup_paths(Flatten([i \in DOMAIN SeedConfigNames |->
                            IF Exists(Join(Root, SeedConfigNames[i]))
                            THEN DiscoveredInOrder(Join(Root, SeedConfigNames[i]), <<>>)
                            ELSE <<>>]))

\* C24.  The alias rules of the resolver, and the base directories appended
\* to the two default ones, appear in the order in which their configuration
\* files were discovered: each seed before the configurations it extends or
\* references, an earlier seed before a later one.
C24_RulesFollowDiscoveryOrder ==
    ResolverBuilt
        => /\ resolver.alias_rules
                  = Flatten([i \in DOMAIN DiscoveryOrder |->
                                ConfigAliasRules(DiscoveryOrder[i], Root)])
           /\ resolver.base_dirs
                  = dedup_paths(<<Root, Join(Root, "src")>>
                                \o Flatten([i \in DOMAIN DiscoveryOrder |->
                                               ConfigBaseDirs(DiscoveryOrder[i], Root)]))

(***************************************************************************)
(* C25: the discovery of configuration files ends, each file counted once. *)
(***************************************************************************)
\* The configuration files a configuration file links to, by canonical path.
LinkedFrom(config) ==
    {canonical_config(target[1]) :
        target \in {resolve_tsconfig_reference_path(
                        UnwrapOr(Parent(config), "."), ConfigLinks(ReadConfig(config))[i]) :
                        i \in DOMAIN ConfigLinks(ReadConfig(config))} \ {None}}

\* Everything the links lead to from the files of S, S included.
RECURSIVE LinkClosure(_)
LinkClosure(S) ==
    IF UNION {LinkedFrom(config) : config \in S} \subseteq S THEN S
    ELSE LinkClosure(S \cup UNION {LinkedFrom(config) : config \in S})

\* The seeds that exist, by canonical path.
ExistingSeeds ==
    {canonical_config(Join(Root, SeedConfigNames[i])) :
        i \in {j \in DOMAIN SeedConfigNames : Exists(Join(Root, SeedConfigNames[j]))}}

\* build_resolver has returned in the stepwise run.
DiscoveryReturned == seed_at = Len(SeedConfigNames) + 2

\* Each discovered configuration file contributes its alias rules and its
\* baseUrl once, in the order of the paths.
ContributesOnce(found) ==
    /\ resolver.alias_rules
           = Flatten([i \in DOMAIN found |-> ConfigAliasRules(found[i], Root)])
    /\ resolver.base_dirs
           = dedup_paths(<<Root, Join(Root, "src")>>
                         \o Flatten([i \in DOMAIN found |-> ConfigBaseDirs(found[i], Root)]))

\* C25.  Configuration discovery terminates on every graph of `extends` and
\* `references` links, cycles and self-references included: build_resolver
\* returns, and the calls of discover_related_tsconfigs never nest deeper
\* than there are configuration files.  What it has found is what the links
\* reach from the existing seeds, and each of these files, by canonical
\* path, contributes its alias rules and its baseUrl exactly once even when
\* several seeds reach it; the result is the one the analyzer's scan uses.
C25_DiscoveryTerminatesCountingOnce ==
    /\ <>DiscoveryReturned
    /\ [](Len(calls) <= Cardinality(LinkClosure(ExistingSeeds)))
    /\ [](DiscoveryReturned
              => /\ config_paths = LinkClosure(ExistingSeeds)
                 /\ ContributesOnce(SortPaths(config_paths))
                 /\ resolver = build_resolver(Root, collect_source_files(Root)))

\* build_resolver has returned on a graph with a self-reference and a cycle
\* through three files, all of them reached from two seeds.
C25_Witness ==
    /\ DiscoveryReturned
    /\ \E config \in config_paths : config \in LinkedFrom(config)
    /\ \E config \in config_paths :
           /\ config \notin LinkedFrom(config)
           /\ config \in LinkClosure(LinkedFrom(config))
    /\ \E first, second \in ExistingSeeds :
           /\ first # second
           /\ Cardinality(LinkClosure({first}) \cap LinkClosure({second})) = 3
    /\ resolver.alias_rules # <<>>

(***************************************************************************)
(* C26: the order of the lists of a report.                                 *)
(***************************************************************************)
\* C26.  The order of the elements of every list of the report, the warnings
\* included, does not depend on the order in which the maps and sets of the
\* analyzer are iterated: the runs on the same tree with the same flags,
\* which differ in nothing but the order in which the export loop visits the
\* modules, report each list in the same order.
C26_DeterministicEmissionOrder ==
    \A i \in DOMAIN reports : \A j \in DOMAIN reports :
        /\ reports[i].entries = reports[j].entries
        /\ reports[i].warnings = reports[j].warnings
        /\ reports[i].unused_files = reports[j].unused_files
        /\ reports[i].used_assets = reports[j].used_assets
        /\ reports[i].unused_assets = reports[j].unused_assets
        /\ reports[i].unused_dependencies = reports[j].unused_dependencies
        /\ reports[i].unused_exports = reports[j].unused_exports

(***************************************************************************)
(* C27: the degenerate fallback of the token tests.                         *)
(***************************************************************************)
\* The last line of export_appears_in_other_reachable_files and of
\* export_appears_in_other_project_files decides, and decides for true: the
\* name is counted in exactly one file and the file is all there is in scope.
DegenerateFallback(counts, export_name, scope, file) ==
    /\ export_name # ""
    /\ export_name \in DOMAIN counts
    /\ counts[export_name] = 1
    /\ Cardinality(scope) = 1
    /\ file \in scope

\* The modules whose exports the loop of run puts to the token tests.
TokenTested ==
    {file \in DOMAIN modules :
        /\ ExportsExamined(file, reachable, maybe_used_from_unresolved, Range(entries))
        /\ ~(IF file \in DOMAIN usage THEN usage[file] ELSE DefaultUsage).all}

\* C27.  The degenerate fallback `scope.len() == 1 && scope.contains(file)`
\* never makes a token test return true: for every module and export that
\* reaches export_appears_in_other_reachable_files or
\* export_appears_in_other_project_files during a run, the name is counted
\* in more than one file, or in none, or the scope is not that single file.
\* A module that is the only reachable file, or the only file of the
\* project, is an entry and is skipped before the tests.
C27_DegenerateFallbackIsDead ==
    pc = "exports"
        => \A file \in TokenTested : \A export_name \in modules[file].exports :
               /\ ~DegenerateFallback(token_file_counts, export_name, reachable, file)
               /\ ~DegenerateFallback(global_token_file_counts, export_name, files, file)
               /\ export_appears_in_other_reachable_files(
                      token_file_counts, export_name, reachable, file)
                      = (export_name \in DOMAIN token_file_counts
                         /\ token_file_counts[export_name] > 1)
               /\ export_appears_in_other_project_files(
                      global_token_file_counts, export_name, files, file)
                      = (export_name \in DOMAIN global_token_file_counts
                         /\ global_token_file_counts[export_name] > 1)

\* The export loop has gone through a project in which one file is all that
\* is reachable and all there is: for its export the fallback would decide
\* for true, and the file, being the entry, is not put to the tests.
C27_Witness ==
    /\ pc = "exports"
    /\ todo = {}
    /\ Cardinality(files) = 1
    /\ \E file \in reachable : \E export_name \in modules[file].exports :
           /\ DegenerateFallback(token_file_counts, export_name, reachable, file)
           /\ DegenerateFallback(global_token_file_counts, export_name, files, file)
           /\ file \notin TokenTested

(***************************************************************************)
(* C28: match_alias on every key and specifier.                             *)
(***************************************************************************)
\* The keys of the alias rules with exactly one wildcard.
OneWildcardKeys ==
    {key \in {resolver.alias_rules[i].key : i \in DOMAIN resolver.alias_rules} :
        Contains(key, "*") /\ AtMostOneWildcard(key)}

\* C28.  match_alias is total and exact: for every alias key with one
\* wildcard and every specifier it returns None, or a capture such that the
\* key's prefix, the capture and the key's suffix make up the specifier.  It
\* does not fail when the specifier starts with the prefix and ends with the
\* suffix but is shorter than the two together.
C28_MatchAliasTotalAndExact ==
    ResolverBuilt
        => \A key \in OneWildcardKeys : \A import \in NormalizedImports :
               \/ match_alias(key, import[2]) = None
               \/ /\ match_alias(key, import[2]) # Panic
                  /\ SplitOnce(key, "*")[1] \o match_alias(key, import[2])[1]
                         \o SplitOnce(key, "*")[2] = import[2]

(***************************************************************************)
(* C29: the cursor of the delete page.                                      *)
(***************************************************************************)
\* The interface is running and its delete state exists.
DeletePageLive == running /\ delete # <<>>

\* C29.  After any sequence of key presses and operations of the delete page
\* (move, toggle, select all, filter change, search apply and reset, delete,
\* undo, restore, empty trash) the cursor is a valid index into the
\* currently filtered list of candidates, or 0 when that list is empty, and
\* the row under the cursor is an item of the list of candidates.
C29_CursorValid ==
    DeletePageLive
        => /\ delete.cursor >= 0
           /\ Len(filtered_indices(delete)) = 0 => delete.cursor = 0
           /\ Len(filtered_indices(delete)) > 0
                  => /\ delete.cursor < Len(filtered_indices(delete))
                     /\ filtered_indices(delete)[delete.cursor + 1] + 1
                            \in DOMAIN delete.items

\* A search that hides one of the two candidates is applied, a deletion batch
\* has been confirmed and a row is selected: the cursor is on the one row
\* that is left to show.
C29_Witness ==
    /\ DeletePageLive
    /\ page = "Delete"
    /\ Len(delete.items) = 2
    /\ Len(filtered_indices(delete)) = 1
    /\ delete.search_query # ""
    /\ delete.undo_stack # <<>>
    /\ delete.selected # {}
    /\ delete.cursor = Len(filtered_indices(delete)) - 1

(***************************************************************************)
(* C30: the counters of the summary against the lists of the report.       *)
(***************************************************************************)
\* C30.  In every report, whether the confidence gate emitted the findings
\* or omitted them, the counters of the summary agree with the lists:
\* used_assets_count is the number of paths in used_assets,
\* unused_assets_count the number in unused_assets, unused_files_count the
\* number in unused_files and unused_exports_count the number in
\* unused_exports.
C30_CountersAgreeWithLists ==
    \A i \in DOMAIN reports :
        /\ reports[i].summary.used_assets_count = Len(reports[i].used_assets)
        /\ reports[i].summary.unused_assets_count = Len(reports[i].unused_assets)
        /\ reports[i].summary.unused_files_count = Len(reports[i].unused_files)
        /\ reports[i].summary.unused_exports_count = Len(reports[i].unused_exports)

=============================================================================
